---------------------------- MODULE Spec2Model ----------------------------
(***************************************************************************)
(* A model of the CANopen library `col` (crate canopen-lib): the frame     *)
(* codec and its builders, the object dictionary, the SDO server and the   *)
(* SDO client.                                                             *)
(*                                                                         *)
(* The module holds several specifications over one set of variables:      *)
(*   SpecCodec   build a frame, convert it to a raw CAN frame, decode it   *)
(*   SpecBuilder  call setters and build() on one SDO frame builder        *)
(*   SpecCalls   call one function of the library on one input            *)
(*   SpecServer  build an object dictionary, then serve inbound frames     *)
(*   SpecDictionary  call the accessors of a built object dictionary       *)
(*   SpecProcessFrame  serve frames on dictionaries with writable numbers  *)
(*   SpecClient  run read_object / write_object against an arbitrary peer  *)
(*   SpecClientLive  the client under weak fairness, for termination       *)
(*   SpecSystem  read_object of the client against the SDO server          *)
(*   SpecSocket  calls of the client against the server over a queueing    *)
(*               socket                                                    *)
(* A specification leaves the variables of the other parts at rest.        *)
(***************************************************************************)
EXTENDS Integers, Sequences, FiniteSets, TLC

VARIABLES
    c_phase,      \* codec: "idle", "built", "raw", "decoded"
    c_typed,      \* codec: <<>> or <<the frame a builder produced>>
    c_raw,        \* codec: <<>> or <<its raw CAN frame>>
    c_decoded,    \* codec: <<>> or <<the result of decoding c_raw>>
    b_builder,    \* builder: <<>> or <<the SDO frame builder in hand>>
    b_call,       \* builder: the last setter called on it
    b_builds,     \* builder: the number of build() calls on it
    b_frame,      \* builder: <<>> or <<the frame of the last build(), no
                  \*          setter called since>>
    f_call,       \* function call: [fn, args], the last function called
    f_result,     \* function call: what it returned
    s_phase,      \* server: "off", "build", "serving", "panicked"
    s_node,       \* server: its node id
    od,           \* server: the objects of the dictionary (builder), in order
    s_request,    \* server: <<>> or <<the last raw frame read from the bus>>
    s_response,   \* server: <<>> or <<the raw frame written in answer to it>>
    s_od_before,  \* server: the dictionary as it was before that frame or call
    s_session,    \* server: the SdoSession of the server
    cl_pc,        \* client: "off", "idle", "await_init", "segment_loop",
                  \*         "await_segment", "await_write", "done", "panicked"
    cl_node,      \* client: node_id of the SdoClient
    cl_op,        \* client: the operation called: [kind, index, subindex, bytes]
    cl_dst,       \* client: the caller's buffer `data` of read_object
    cl_result,    \* client: <<>> or <<the Result the operation returned>>
    cl_len,       \* client: len of read_object
    cl_bytes_already_read,  \* client: bytes_already_read of read_object
    cl_toggle,    \* client: toggle of read_object
    cl_elapsed,   \* client: ticks since the timeout of this exchange was armed
    cl_sent,      \* client: <<>> or <<the last raw frame written>>
    cl_last_rx,   \* client: <<>> or <<the last raw frame read in this operation>>
    cl_sent_after_rx,  \* client: a frame was written after that frame was read
    cl_ended_by,  \* client: what ended the last exchange: "", "frame",
                  \*         "timeout", "stream", "write"
    cl_calls,     \* socket: the number of operations called on the SdoClient
    cl_requests,  \* socket: the requests written and not yet read by the
                  \*         server, each [frame, call]
    cl_socket,    \* socket: the frames queued on the client's socket and not
                  \*         yet read, each [frame, call]: call is the number
                  \*         of the operation whose request it answers
    cl_taken      \* socket: <<>> or <<the entry last read from cl_socket in
                  \*         this operation>>

builderVars == <<b_builder, b_call, b_builds, b_frame>>
callVars == <<f_call, f_result>>
codecVars == <<c_phase, c_typed, c_raw, c_decoded, builderVars, callVars>>
serverVars == <<s_phase, s_node, od, s_request, s_response, s_od_before, s_session>>
socketVars == <<cl_calls, cl_requests, cl_socket, cl_taken>>
clientVars == <<cl_pc, cl_node, cl_op, cl_dst, cl_result, cl_len, cl_bytes_already_read,
                cl_toggle, cl_elapsed, cl_sent, cl_last_rx, cl_sent_after_rx, cl_ended_by,
                socketVars>>
vars == <<codecVars, serverVars, clientVars>>

-----------------------------------------------------------------------------
(* Bytes and words.  u8 = 0..255; a u32 is kept below 2^31 by the inputs.  *)

Byte == 0..255

\* util.rs Split: lo()/hi() of a u16 and of a u32
lo16(x) == x % 256
hi16(x) == (x \div 256) % 256
lo32(x) == x % 65536
hi32(x) == (x \div 65536) % 65536

\* little-endian u32 of four bytes, as the payload parsers compute it
le_u32(b4, b5, b6, b7) == b4 + b5 * 256 + b6 * 65536 + b7 * 16777216

\* util.rs map_index
map_index(index, subindex) == index * 256 + subindex

\* a sequence padded with zeros (or cut) to n elements
ZeroPad(s, n) == [i \in 1..n |-> IF i <= Len(s) THEN s[i] ELSE 0]

-----------------------------------------------------------------------------
(* frame/mod.rs: frame types and COB-IDs                                   *)

\* enum FrameType with its discriminants; 0b1101 and 0b1111 are no variant
FrameTypeCode ==
    [Nmt |-> 0, SyncEmergency |-> 1, Time |-> 2, Tpdo1 |-> 3, Rpdo1 |-> 4,
     Tpdo2 |-> 5, Rpdo2 |-> 6, Tpdo3 |-> 7, Rpdo3 |-> 8, Tpdo4 |-> 9,
     Rpdo4 |-> 10, SdoTx |-> 11, SdoRx |-> 12, NmtErrorControl |-> 14]

FrameTypes == DOMAIN FrameTypeCode

PdoTypes == {"Tpdo1", "Tpdo2", "Tpdo3", "Tpdo4", "Rpdo1", "Rpdo2", "Rpdo3", "Rpdo4"}

\* CANOpenFrame::cob_id
cob_id(frame) == frame.node_id + FrameTypeCode[frame.frame_type] * 128

\* an extract_frame_type_and_node_id that takes the four type bits of any id
extract_frame_type_and_node_id_unchecked(id) ==
    LET code == (id \div 128) % 16
    IN  IF ~(\E t \in FrameTypes : FrameTypeCode[t] = code)
        THEN [ok |-> FALSE, err |-> "InvalidCobId", cob_id |-> id]
        ELSE [ok |-> TRUE,
              frame_type |-> CHOOSE t \in FrameTypes : FrameTypeCode[t] = code,
              node_id |-> id % 128]

\* extract_frame_type_and_node_id: Err(InvalidCobId {cob_id}) above 0x77F and
\* for a type code that is no FrameType
extract_frame_type_and_node_id(id) ==
    LET code == (id \div 128) % 16
    IN  IF id > \h77F \/ ~(\E t \in FrameTypes : FrameTypeCode[t] = code)
        THEN [ok |-> FALSE, err |-> "InvalidCobId", cob_id |-> id]
        ELSE [ok |-> TRUE,
              frame_type |-> CHOOSE t \in FrameTypes : FrameTypeCode[t] = code,
              node_id |-> id % 128]

-----------------------------------------------------------------------------
(* frame/sdo/mod.rs: command byte                                          *)

\* ClientCommandSpecifier as u8 (bits 7..5).  builder.rs names Download
\* InitiateDownload and Upload InitiateUpload.
ClientCommandSpecifier ==
    [DownloadSegment |-> 0, Download |-> 32, Upload |-> 64, UploadSegment |-> 96,
     BlockUpload |-> 160, BlockDownload |-> 192, Unspecified |-> 224]

\* ServerCommandSpecifier as u8 (bits 7..5).  builder.rs names Upload
\* UploadResponse and Download DownloadResponse.
ServerCommandSpecifier ==
    [UploadSegment |-> 0, DownloadSegment |-> 32, Upload |-> 64, Download |-> 96,
     Abort |-> 128, BlockUpload |-> 160, BlockDownload |-> 192, Unspecified |-> 224]

Ccs(name) == [side |-> "Ccs", name |-> name]
Scs(name) == [side |-> "Scs", name |-> name]

\* From<u8> for ClientCommandSpecifier: 0b100 and 0b111 give Unspecified
ClientCommandSpecifier_from(byte) ==
    LET bits == (byte \div 32) * 32
    IN  IF \E n \in DOMAIN ClientCommandSpecifier : ClientCommandSpecifier[n] = bits
        THEN CHOOSE n \in DOMAIN ClientCommandSpecifier : ClientCommandSpecifier[n] = bits
        ELSE "Unspecified"

\* From<u8> for ServerCommandSpecifier
ServerCommandSpecifier_from(byte) ==
    LET bits == (byte \div 32) * 32
    IN  CHOOSE n \in DOMAIN ServerCommandSpecifier : ServerCommandSpecifier[n] = bits

\* Into<u8> for CommandSpecifier
CommandSpecifier_into_u8(cs) ==
    IF cs.side = "Ccs" THEN ClientCommandSpecifier[cs.name]
    ELSE ServerCommandSpecifier[cs.name]

\* enum CommandDataSize as u8 (bits 3..2 and the size-indicated bit 0)
CommandDataSize ==
    [OneByte |-> 13, TwoBytes |-> 9, ThreeBytes |-> 5, FourBytes |-> 1, NotSet |-> 0]

\* a From<u8> for CommandDataSize that reads bits 3..2 whatever bit 0 is
CommandDataSize_from_bits_3_2(byte) ==
    LET n == (byte \div 4) % 4
    IN  CASE n = 0 -> "FourBytes"
          [] n = 1 -> "ThreeBytes"
          [] n = 2 -> "TwoBytes"
          [] n = 3 -> "OneByte"

\* From<u8> for CommandDataSize: data & 0b0000_1101
CommandDataSize_from(byte) ==
    LET masked == ((byte \div 4) % 4) * 4 + (byte % 2)
    IN  CASE masked = 1 -> "FourBytes"
          [] masked = 5 -> "ThreeBytes"
          [] masked = 9 -> "TwoBytes"
          [] masked = 13 -> "OneByte"
          [] OTHER -> "NotSet"

\* extract_length
extract_length(size) ==
    CASE size = "NotSet" -> 0
      [] size = "OneByte" -> 1
      [] size = "TwoBytes" -> 2
      [] size = "ThreeBytes" -> 3
      [] size = "FourBytes" -> 4

expedited_bit_set(byte) == (byte \div 2) % 2 = 1
toggle_bit_set(byte) == (byte \div 16) % 2 = 1

\* WithoutIndexPayload::get_length_from_command_byte: None is <<>>, Some(x) is <<x>>
get_length_from_command_byte(byte) ==
    IF byte % 2 = 0 THEN <<>> ELSE <<(byte \div 2) % 8>>

-----------------------------------------------------------------------------
(* frame/sdo/mod.rs: payloads.  data is the 8-byte payload [b0 .. b7],     *)
(* here a sequence indexed from 1.                                         *)

WithIndexFields(cs, data) ==
    [kind |-> "SdoWithIndex",
     cs |-> cs,
     size |-> CommandDataSize_from(data[1]),
     expedited_flag |-> expedited_bit_set(data[1]),
     index |-> data[2] + data[3] * 256,
     subindex |-> data[4],
     data |-> le_u32(data[5], data[6], data[7], data[8])]

\* WithIndexPayload::parse_as_server_payload
WithIndexPayload_parse_as_server_payload(data) ==
    LET cs == ServerCommandSpecifier_from(data[1])
    IN  IF cs \in {"Abort", "Upload", "UploadSegment", "Download", "DownloadSegment"}
        THEN [ok |-> TRUE, p |-> WithIndexFields(Scs(cs), data)]
        ELSE [ok |-> FALSE, err |-> "SdoPayloadParseError"]

\* WithIndexPayload::parse_as_client_payload
WithIndexPayload_parse_as_client_payload(data) ==
    LET cs == ClientCommandSpecifier_from(data[1])
    IN  IF cs \in {"Download", "Upload", "UploadSegment"}
        THEN [ok |-> TRUE, p |-> WithIndexFields(Ccs(cs), data)]
        ELSE IF cs \in {"BlockDownload", "BlockUpload"}
        THEN [ok |-> FALSE, err |-> "SdoPayloadNotImplementedYet"]
        ELSE [ok |-> FALSE, err |-> "SdoPayloadParseError"]

\* Into<SdoPayloadData> for WithIndexPayload
WithIndexPayload_into(p) ==
    <<CommandDataSize[p.size] + CommandSpecifier_into_u8(p.cs)
          + (IF p.expedited_flag THEN 2 ELSE 0),
      lo16(p.index), hi16(p.index), p.subindex,
      lo16(lo32(p.data)), hi16(lo32(p.data)),
      lo16(hi32(p.data)), hi16(hi32(p.data))>>

WithoutIndexFields(cs, data) ==
    [kind |-> "SdoWithoutIndex",
     cs |-> cs,
     toggle |-> toggle_bit_set(data[1]),
     length_of_empty_bytes |-> get_length_from_command_byte(data[1]),
     data |-> SubSeq(data, 2, 8)]

\* WithoutIndexPayload::parse_as_server_payload
WithoutIndexPayload_parse_as_server_payload(data) ==
    LET cs == ServerCommandSpecifier_from(data[1])
    IN  IF cs = "Upload"
        THEN [ok |-> TRUE, p |-> WithoutIndexFields(Scs(cs), data)]
        ELSE [ok |-> FALSE, err |-> "SdoPayloadParseError"]

\* WithoutIndexPayload::parse_as_client_payload
WithoutIndexPayload_parse_as_client_payload(data) ==
    LET cs == ClientCommandSpecifier_from(data[1])
    IN  IF cs = "UploadSegment"
        THEN [ok |-> TRUE, p |-> WithoutIndexFields(Ccs(cs), data)]
        ELSE [ok |-> FALSE, err |-> "SdoPayloadParseError"]

\* Into<SdoPayloadData> for WithoutIndexPayload
WithoutIndexPayload_into(p) ==
    <<CommandSpecifier_into_u8(p.cs)
          + (IF p.toggle THEN 16 ELSE 0)
          + (IF p.length_of_empty_bytes = <<>> THEN 0
             ELSE 1 + (p.length_of_empty_bytes[1] % 8) * 2)>>
    \o p.data

UnspecificPayload(data, length) ==
    [kind |-> "Unspecific", length |-> length, data |-> ZeroPad(data, 8)]

-----------------------------------------------------------------------------
(* frame/mod.rs: typed frame <-> raw CAN frame.  A raw frame is            *)
(* [id, data, rtr] with at most 8 data bytes.                              *)

CANOpenFrame(node_id, frame_type, is_rtr, payload) ==
    [node_id |-> node_id, frame_type |-> frame_type, is_rtr |-> is_rtr,
     payload |-> payload]

\* Into<CANFrame> for CANOpenFrame
CANOpenFrame_into(frame) ==
    [id |-> cob_id(frame),
     data |-> CASE frame.payload.kind = "Unspecific" ->
                       SubSeq(frame.payload.data, 1, frame.payload.length)
                [] frame.payload.kind = "SdoWithIndex" ->
                       WithIndexPayload_into(frame.payload)
                [] frame.payload.kind = "SdoWithoutIndex" ->
                       WithoutIndexPayload_into(frame.payload),
     rtr |-> frame.is_rtr]

\* a payload match that tries the without-index parsers first
decode_payload_without_index_first(frame_type, raw) ==
    LET length == Len(raw.data)
        data == ZeroPad(raw.data, 8)
        unspecific == UnspecificPayload(raw.data, length)
    IN  CASE frame_type = "SdoTx" ->
                 IF length # 8 THEN unspecific
                 ELSE IF WithoutIndexPayload_parse_as_server_payload(data).ok
                 THEN WithoutIndexPayload_parse_as_server_payload(data).p
                 ELSE IF WithIndexPayload_parse_as_server_payload(data).ok
                 THEN WithIndexPayload_parse_as_server_payload(data).p
                 ELSE unspecific
          [] frame_type = "SdoRx" ->
                 IF length # 8 THEN unspecific
                 ELSE IF WithoutIndexPayload_parse_as_client_payload(data).ok
                 THEN WithoutIndexPayload_parse_as_client_payload(data).p
                 ELSE IF WithIndexPayload_parse_as_client_payload(data).ok
                 THEN WithIndexPayload_parse_as_client_payload(data).p
                 ELSE unspecific
          [] OTHER -> unspecific

\* the payload match of TryFrom<CANFrame>
decode_payload(frame_type, raw) ==
    LET length == Len(raw.data)
        data == ZeroPad(raw.data, 8)
        unspecific == UnspecificPayload(raw.data, length)
    IN  CASE frame_type = "SdoTx" ->
                 IF length # 8 THEN unspecific
                 ELSE IF WithIndexPayload_parse_as_server_payload(data).ok
                 THEN WithIndexPayload_parse_as_server_payload(data).p
                 ELSE IF WithoutIndexPayload_parse_as_server_payload(data).ok
                 THEN WithoutIndexPayload_parse_as_server_payload(data).p
                 ELSE unspecific
          [] frame_type = "SdoRx" ->
                 IF length # 8 THEN unspecific
                 ELSE IF WithIndexPayload_parse_as_client_payload(data).ok
                 THEN WithIndexPayload_parse_as_client_payload(data).p
                 ELSE IF WithoutIndexPayload_parse_as_client_payload(data).ok
                 THEN WithoutIndexPayload_parse_as_client_payload(data).p
                 ELSE unspecific
          [] OTHER -> unspecific

\* TryFrom<CANFrame> for CANOpenFrame
CANOpenFrame_try_from(raw) ==
    LET x == extract_frame_type_and_node_id(raw.id)
    IN  IF ~x.ok THEN [ok |-> FALSE, err |-> x.err, cob_id |-> x.cob_id]
        ELSE IF Len(raw.data) > 8
        THEN [ok |-> FALSE, err |-> "InvalidDataLength", cob_id |-> raw.id]
        ELSE [ok |-> TRUE,
              frame |-> CANOpenFrame(x.node_id, x.frame_type, raw.rtr,
                                     decode_payload(x.frame_type, raw))]

-----------------------------------------------------------------------------
(* frame/sdo/mod.rs: abort codes.  A code is [name, x]; x is the payload   *)
(* of UnknownAbortCode and 0 otherwise.                                    *)

AbortCode(name) == [name |-> name, x |-> 0]
UnknownAbortCode(x) == [name |-> "UnknownAbortCode", x |-> x]

\* the match of From<u32> for SDOAbortCode
SDOAbortCodeTable ==
    [ToggleBitNotAlternated |-> \h05030000, SDOProtocolTimedOut |-> \h05040000,
     ClientCommandSpecifierError |-> \h05040001, InvalidBlockSize |-> \h05040002,
     InvalidSequenceNumber |-> \h05040003, CRCError |-> \h05040004,
     OutOfMemory |-> \h05040005, UnsupportedAccess |-> \h06010000,
     ReadWriteOnlyError |-> \h06010001, WriteReadOnlyError |-> \h06010002,
     ObjectDoesNotExist |-> \h06020000, ObjectCannotBeMapped |-> \h06040041,
     PDOOverflow |-> \h06040042, ParameterIncompatibility |-> \h06040043,
     InternalIncompatibility |-> \h06040047, HardwareError |-> \h06060000,
     WrongLength |-> \h06070010, TooLong |-> \h06070012, TooShort |-> \h06070013,
     SubindexDoesNotExist |-> \h06090011, WrongValue |-> \h06090030,
     ValueTooHigh |-> \h06090031, ValueTooLow |-> \h06090032,
     RangeError |-> \h06090036, GeneralError |-> \h08000000,
     StorageError |-> \h08000020, LocalControlError |-> \h08000021,
     DeviceStateError |-> \h08000022, DictionaryError |-> \h08000023]

\* From<u32> for SDOAbortCode
SDOAbortCode_from(code) ==
    IF \E n \in DOMAIN SDOAbortCodeTable : SDOAbortCodeTable[n] = code
    THEN AbortCode(CHOOSE n \in DOMAIN SDOAbortCodeTable : SDOAbortCodeTable[n] = code)
    ELSE UnknownAbortCode(code)

\* Into<u32> for SDOAbortCode; ReadWriteOnlyError is written as 0x0601_0000
SDOAbortCode_into_u32(c) ==
    CASE c.name = "UnknownAbortCode" -> c.x
      [] c.name = "ReadWriteOnlyError" -> \h06010000
      [] OTHER -> SDOAbortCodeTable[c.name]

-----------------------------------------------------------------------------
(* frame/builder.rs and frame/sdo/builder.rs                               *)

\* CanOpenFrameBuilder::sdo_request / sdo_response (node_id <= 0x7f)
sdo_request(node_id) == [node_id |-> node_id, frame_type |-> "SdoRx"]
sdo_response(node_id) == [node_id |-> node_id, frame_type |-> "SdoTx"]

\* SdoFrameBuilder::with_index
with_index(b, index, subindex) ==
    [node_id |-> b.node_id, frame_type |-> b.frame_type,
     command_specifier |-> IF b.frame_type = "SdoRx" THEN Ccs("Unspecified")
                           ELSE Scs("Unspecified"),
     size |-> "NotSet", expedited_flag |-> FALSE,
     index |-> index, subindex |-> subindex, data |-> 0]

\* SdoFrameBuilder::without_index
without_index(b) ==
    [node_id |-> b.node_id, frame_type |-> b.frame_type,
     command_specifier |-> IF b.frame_type = "SdoRx" THEN Ccs("Unspecified")
                           ELSE Scs("Unspecified"),
     toggle |-> TRUE, length_of_empty_bytes |-> <<>>,
     data |-> ZeroPad(<<>>, 7)]

\* WithIndexFrameBuilder::build
WithIndexFrameBuilder_build(w) ==
    CANOpenFrame(w.node_id, w.frame_type, FALSE,
        [kind |-> "SdoWithIndex", cs |-> w.command_specifier, size |-> w.size,
         expedited_flag |-> w.expedited_flag, index |-> w.index,
         subindex |-> w.subindex, data |-> w.data])

SetCommand(w, cs, size, data, expedited) ==
    [w EXCEPT !.command_specifier = cs, !.size = size, !.data = data,
              !.expedited_flag = expedited]

abort(w, abort_code) ==
    SetCommand(w, Scs("Abort"), "NotSet", SDOAbortCode_into_u32(abort_code), FALSE)
download_one_byte(w, data) == SetCommand(w, Ccs("Download"), "OneByte", data % 256, TRUE)
download_two_bytes(w, data) == SetCommand(w, Ccs("Download"), "TwoBytes", data % 65536, TRUE)
download_four_bytes(w, data) == SetCommand(w, Ccs("Download"), "FourBytes", data, TRUE)
download_response(w) == SetCommand(w, Scs("Download"), "NotSet", 0, FALSE)
\* upload_request sets the server command specifier UploadResponse
upload_request(w) == SetCommand(w, Scs("Upload"), "NotSet", 0, FALSE)
upload_one_byte_expedited_response(w, data) ==
    SetCommand(w, Scs("Upload"), "OneByte", data % 256, TRUE)
upload_two_bytes_response_expedited_response(w, data) ==
    SetCommand(w, Scs("Upload"), "TwoBytes", data % 65536, TRUE)
upload_three_bytes_expedited_response(w, data) ==
    SetCommand(w, Scs("Upload"), "ThreeBytes", data % 16777216, TRUE)
upload_four_bytes_expedited_response(w, data) ==
    SetCommand(w, Scs("Upload"), "FourBytes", data, TRUE)
upload_segmented_response(w, length) ==
    SetCommand(w, Scs("Upload"), "FourBytes", length, FALSE)

\* the match on data.len() shared by download and upload_expedited_response;
\* both panic for more than four bytes
SizeOfSlice(bytes) ==
    CASE Len(bytes) = 4 -> "FourBytes"
      [] Len(bytes) = 3 -> "ThreeBytes"
      [] Len(bytes) = 2 -> "TwoBytes"
      [] Len(bytes) = 1 -> "OneByte"
      [] Len(bytes) = 0 -> "NotSet"

DataOfSlice(bytes) ==
    LET b == ZeroPad(bytes, 4) IN le_u32(b[1], b[2], b[3], b[4])

\* WithIndexFrameBuilder::download (sets the client command specifier
\* InitiateDownload), defined for Len(bytes) <= 4
download(w, bytes) ==
    SetCommand(w, Ccs("Download"), SizeOfSlice(bytes), DataOfSlice(bytes), TRUE)

\* WithIndexFrameBuilder::upload_expedited_response (sets the client
\* command specifier InitiateUpload), defined for Len(bytes) <= 4
upload_expedited_response(w, bytes) ==
    SetCommand(w, Ccs("Upload"), SizeOfSlice(bytes), DataOfSlice(bytes), TRUE)

\* a build that puts the builder's flag into the frame as it is
WithoutIndexFrameBuilder_build_without_toggling(w) ==
    CANOpenFrame(w.node_id, w.frame_type, FALSE,
        [kind |-> "SdoWithoutIndex", cs |-> w.command_specifier,
         toggle |-> w.toggle,
         length_of_empty_bytes |-> w.length_of_empty_bytes, data |-> w.data])

\* WithoutIndexFrameBuilder::build toggles the builder's flag first
WithoutIndexFrameBuilder_build(w) ==
    CANOpenFrame(w.node_id, w.frame_type, FALSE,
        [kind |-> "SdoWithoutIndex", cs |-> w.command_specifier,
         toggle |-> ~w.toggle,
         length_of_empty_bytes |-> w.length_of_empty_bytes, data |-> w.data])

\* the builder after a build call
WithoutIndexFrameBuilder_built(w) == [w EXCEPT !.toggle = ~w.toggle]

SetSegment(w, cs, empty, data) ==
    [w EXCEPT !.command_specifier = cs, !.length_of_empty_bytes = empty,
              !.data = ZeroPad(data, 7)]

EmptyBytesOf(chunk) == IF Len(chunk) < 7 THEN <<7 - Len(chunk)>> ELSE <<>>

WithoutIndexFrameBuilder_upload_request(w) == SetSegment(w, Ccs("UploadSegment"), <<0>>, <<>>)
WithoutIndexFrameBuilder_upload_response(w, chunk) ==
    SetSegment(w, Scs("DownloadSegment"), EmptyBytesOf(chunk), chunk)
WithoutIndexFrameBuilder_download_request(w, chunk) ==
    SetSegment(w, Ccs("DownloadSegment"), EmptyBytesOf(chunk), chunk)
WithoutIndexFrameBuilder_download_response(w) == SetSegment(w, Scs("Download"), <<0>>, <<>>)

\* a pdo that takes a COB-ID of any frame type
pdo_of_any_type(is_rtr, id) ==
    LET x == extract_frame_type_and_node_id(id)
    IN  IF ~x.ok THEN [ok |-> FALSE, err |-> x.err, cob_id |-> x.cob_id]
        ELSE [ok |-> TRUE,
              b |-> [node_id |-> x.node_id, frame_type |-> x.frame_type,
                     is_rtr |-> is_rtr, length |-> 0, data |-> ZeroPad(<<>>, 8)]]

\* CanOpenFrameBuilder::pdo: Ok for a COB-ID of a PDO type
pdo(is_rtr, id) ==
    LET x == extract_frame_type_and_node_id(id)
    IN  IF ~x.ok THEN [ok |-> FALSE, err |-> x.err, cob_id |-> x.cob_id]
        ELSE IF x.frame_type \notin PdoTypes
        THEN [ok |-> FALSE, err |-> "InvalidCobId", cob_id |-> id]
        ELSE [ok |-> TRUE,
              b |-> [node_id |-> x.node_id, frame_type |-> x.frame_type,
                     is_rtr |-> is_rtr, length |-> 0, data |-> ZeroPad(<<>>, 8)]]

\* UnspecificPayloadBuilder::payload, for Len(data) <= 8
payload(b, data) ==
    [b EXCEPT !.length = Len(data),
              !.data = [i \in 1..8 |-> IF i <= Len(data) THEN data[i] ELSE b.data[i]]]

\* UnspecificPayloadBuilder::build
UnspecificPayloadBuilder_build(b) ==
    CANOpenFrame(b.node_id, b.frame_type, b.is_rtr,
        [kind |-> "Unspecific", length |-> b.length, data |-> b.data])

-----------------------------------------------------------------------------
(* util.rs ValueVariant, node/object.rs CanOpenObject                      *)
(* A value is [tag, v, s]: v the number of a numeric variant (0 for S),    *)
(* s the bytes of a string (<<>> for a numeric variant).                   *)

U8(x) == [tag |-> "U8", v |-> x, s |-> <<>>]
U16(x) == [tag |-> "U16", v |-> x, s |-> <<>>]
U32(x) == [tag |-> "U32", v |-> x, s |-> <<>>]
I8(x) == [tag |-> "I8", v |-> x, s |-> <<>>]
I16(x) == [tag |-> "I16", v |-> x, s |-> <<>>]
I32(x) == [tag |-> "I32", v |-> x, s |-> <<>>]
F32(bits) == [tag |-> "F32", v |-> bits, s |-> <<>>]
S(bytes) == [tag |-> "S", v |-> 0, s |-> bytes]

\* `as i8`, `as i16` of a u32: truncate, then read as two's complement
as_signed(x, modulus) ==
    LET t == x % modulus IN IF t >= modulus \div 2 THEN t - modulus ELSE t

\* ValueVariant::to_little_endian_buffer into a 4-byte buffer; a string
\* gives the empty slice
to_little_endian_buffer(value) ==
    CASE value.tag \in {"U8", "I8"} -> <<value.v % 256>>
      [] value.tag \in {"U16", "I16"} ->
             <<lo16(value.v % 65536), hi16(value.v % 65536)>>
      [] value.tag \in {"U32", "I32", "F32"} ->
             <<lo16(lo32(value.v)), hi16(lo32(value.v)),
               lo16(hi32(value.v)), hi16(hi32(value.v))>>
      [] OTHER -> <<>>

\* the signed value of a byte, and little-endian integers of a buffer
as_i8(byte) == IF byte >= 128 THEN byte - 256 ELSE byte
u16_from_le_bytes(data) == data[1] + data[2] * 256
u32_from_le_bytes(data) == le_u32(data[1], data[2], data[3], data[4])
i32_from_le_bytes(data) == data[1] + data[2] * 256 + data[3] * 65536 + as_i8(data[4]) * 16777216

\* cot: what parse_buffer_as returns; a read behind the end of data panics
ParseOk(value) == [panic |-> FALSE, ok |-> TRUE, err |-> "", value |-> value]
ParseErr(error) == [panic |-> FALSE, ok |-> FALSE, err |-> error, value |-> S(<<>>)]
ParsePanic == [panic |-> TRUE, ok |-> FALSE, err |-> "", value |-> S(<<>>)]

\* cot parse_buffer_as: a number is refused when data has the length of its
\* type and read from the first bytes of data otherwise; a string is taken
\* when no byte of it is above 0x7F (the buffers here hold no multi-byte
\* UTF-8 sequence)
parse_buffer_as(value_type, data) ==
    CASE value_type = "U8" ->
             IF Len(data) = 1 THEN ParseErr("InvalidNumberType")
             ELSE IF Len(data) < 1 THEN ParsePanic
             ELSE ParseOk(U8(data[1]))
      [] value_type = "U16" ->
             IF Len(data) = 2 THEN ParseErr("InvalidNumberType")
             ELSE IF Len(data) < 2 THEN ParsePanic
             ELSE ParseOk(U16(u16_from_le_bytes(data)))
      [] value_type = "U32" ->
             IF Len(data) = 4 THEN ParseErr("InvalidNumberType")
             ELSE IF Len(data) < 4 THEN ParsePanic
             ELSE ParseOk(U32(u32_from_le_bytes(data)))
      [] value_type = "I8" ->
             IF Len(data) = 1 THEN ParseErr("InvalidNumberType")
             ELSE IF Len(data) < 1 THEN ParsePanic
             ELSE ParseOk(I8(as_i8(data[1])))
      [] value_type = "I16" ->
             IF Len(data) = 2 THEN ParseErr("InvalidNumberType")
             ELSE IF Len(data) < 2 THEN ParsePanic
             ELSE ParseOk(I16(as_signed(u16_from_le_bytes(data), 65536)))
      [] value_type = "I32" ->
             IF Len(data) = 4 THEN ParseErr("InvalidNumberType")
             ELSE IF Len(data) < 4 THEN ParsePanic
             ELSE ParseOk(I32(i32_from_le_bytes(data)))
      [] value_type = "F32" ->
             IF Len(data) = 4 THEN ParseErr("InvalidNumberType")
             ELSE IF Len(data) < 4 THEN ParsePanic
             ELSE ParseOk(F32(u32_from_le_bytes(data)))
      [] value_type = "STR" ->
             IF \E i \in 1..Len(data) : data[i] > 127 THEN ParseErr("Formatting")
             ELSE ParseOk(S(data))
      [] OTHER -> ParseErr("InvalidNumberType")

\* struct CanOpenObject {mapped_index, value: StoredValue, privilege}; the
\* StoredValue is the pair storage, value; a NoStorage entry holds a handler
CanOpenObject(index, subindex, storage, value, privilege) ==
    [mapped_index |-> map_index(index, subindex), storage |-> storage,
     value |-> value, privilege |-> privilege]

\* CanOpenObject::const_object (object_dictionary.rs calls it new_const_object)
const_object(index, subindex, value) ==
    CanOpenObject(index, subindex, "Const", value, "ReadOnly")

\* CanOpenObject::variable_object: [panic, object]; it panics for every value
\* whose variant is not S
variable_object(index, subindex, value) ==
    [panic |-> value.tag # "S",
     object |-> CanOpenObject(index, subindex, "Variable", value, "ReadWrite")]

\* CanOpenObject::persistent_object: [panic, object], with the same check
persistent_object(index, subindex, value) ==
    [panic |-> value.tag # "S",
     object |-> CanOpenObject(index, subindex, "Persistent", value, "ReadWrite")]

\* CanOpenObject::nostorage_object with default_handler
nostorage_object(index, subindex) ==
    CanOpenObject(index, subindex, "NoStorage", S(<<>>), "WriteOnly")

\* default_handler
default_handler(mapped_index, new_value) == [ok |-> TRUE, err |-> ""]

\* a set_value that does not compare the variants
set_value_without_discriminant_check(object, value) ==
    CASE object.storage = "NoStorage" ->
             [ok |-> default_handler(object.mapped_index, value).ok, changed |-> TRUE,
              err |-> default_handler(object.mapped_index, value).err, object |-> object,
              handled |-> TRUE]
      [] object.storage = "Const" ->
             [ok |-> FALSE, changed |-> FALSE, err |-> "CannotWriteToConstStorage",
              object |-> object, handled |-> FALSE]
      [] OTHER ->
             IF object.value # value
             THEN [ok |-> TRUE, changed |-> TRUE, err |-> "",
                   object |-> [object EXCEPT !.value = value], handled |-> FALSE]
             ELSE [ok |-> TRUE, changed |-> FALSE, err |-> "", object |-> object,
                   handled |-> FALSE]

\* CanOpenObject::set_value: [ok, changed, err, object, handled]; handled
\* says that the handler of a NoStorage object was called
set_value(object, value) ==
    CASE object.storage = "NoStorage" ->
             [ok |-> default_handler(object.mapped_index, value).ok, changed |-> TRUE,
              err |-> default_handler(object.mapped_index, value).err, object |-> object,
              handled |-> TRUE]
      [] object.storage = "Const" ->
             [ok |-> FALSE, changed |-> FALSE, err |-> "CannotWriteToConstStorage",
              object |-> object, handled |-> FALSE]
      [] OTHER ->
             IF value.tag # object.value.tag
             THEN [ok |-> FALSE, changed |-> FALSE, err |-> "InvalidNumberType",
                   object |-> object, handled |-> FALSE]
             ELSE IF object.value # value
             THEN [ok |-> TRUE, changed |-> TRUE, err |-> "",
                   object |-> [object EXCEPT !.value = value], handled |-> FALSE]
             ELSE [ok |-> TRUE, changed |-> FALSE, err |-> "", object |-> object,
                   handled |-> FALSE]

\* CanOpenObject::get_value
get_value(object) ==
    IF object.storage = "NoStorage"
    THEN [ok |-> FALSE, err |-> "ReadAccessImpossible", value |-> S(<<>>)]
    ELSE [ok |-> TRUE, err |-> "", value |-> object.value]

-----------------------------------------------------------------------------
(* node/object_dictionary.rs.  The dictionary is the sequence of its       *)
(* number_of_objects registered objects, object[0] first.                  *)

MAX_NUMBER_OF_OBJECTS == 256

\* ObjectDictionaryBuilder::new
ObjectDictionaryBuilder_new(device_type, vendor_id) ==
    <<const_object(\h1000, 1, U32(device_type)),
      const_object(\h1001, 1, U8(0)),
      const_object(\h1018, 1, U32(vendor_id))>>

\* a search for the slot that always ends behind the last object
InsertSlotAtEnd(objects, object, array_index) == Len(objects)

\* the slot the while loop of custom_entry stops at when it starts at
\* array_index: the first one that holds an object greater than the new one,
\* or number_of_objects when no object is greater
InsertSlot(objects, object, array_index) ==
    LET greater == {i \in array_index..Len(objects) - 1 :
                       objects[i + 1].mapped_index > object.mapped_index}
    IN  IF greater = {} THEN Len(objects)
        ELSE CHOOSE i \in greater : \A j \in greater : i <= j

\* a custom_entry that does not look at the number of objects it holds
custom_entry_without_capacity_check(objects, object) ==
    LET slot == InsertSlot(objects, object, 0)
    IN  IF \E i \in 1..slot : objects[i].mapped_index = object.mapped_index
        THEN [panic |-> TRUE, objects |-> objects, written |-> {}]
        ELSE [panic |-> FALSE,
              objects |-> SubSeq(objects, 1, slot) \o <<object>>
                          \o SubSeq(objects, slot + 1, Len(objects)),
              written |-> slot..Len(objects)]

\* ObjectDictionaryBuilder::custom_entry: panics when the array is full or
\* the object is already registered ahead of the slot; written are the
\* indices of self.object it assigns (the moved objects and the new one)
custom_entry(objects, object) ==
    LET slot == InsertSlot(objects, object, 0)
    IN  IF Len(objects) >= MAX_NUMBER_OF_OBJECTS
           \/ \E i \in 1..slot : objects[i].mapped_index = object.mapped_index
        THEN [panic |-> TRUE, objects |-> objects, written |-> {}]
        ELSE [panic |-> FALSE,
              objects |-> SubSeq(objects, 1, slot) \o <<object>>
                          \o SubSeq(objects, slot + 1, Len(objects)),
              written |-> slot..Len(objects)]

\* the loop of ObjectDictionary::array_index (indices from 0)
RECURSIVE array_index_loop(_, _, _, _)
array_index_loop(objects, mapped_index, min, max) ==
    LET center == (max - min) \div 2 + min
    IN  IF objects[center + 1].mapped_index = mapped_index
        THEN [ok |-> TRUE, i |-> center]
        ELSE IF max = min + 1
        THEN [ok |-> FALSE, i |-> 0]
        ELSE IF objects[center + 1].mapped_index > mapped_index
        THEN array_index_loop(objects, mapped_index, min, center)
        ELSE array_index_loop(objects, mapped_index, center, max)

\* the shorthand setters of ObjectDictionaryBuilder
device_name(objects, device_name_) ==
    custom_entry(objects, const_object(\h1008, 1, S(device_name_)))
hardware_version(objects, hardware_version_) ==
    custom_entry(objects, const_object(\h1009, 1, S(hardware_version_)))
software_version(objects, software_version_) ==
    custom_entry(objects, const_object(\h100A, 1, S(software_version_)))
product_identifier(objects, product_identifier_) ==
    custom_entry(objects, const_object(\h1018, 2, U32(product_identifier_)))
\* a product_revision that registers the object of product_identifier
product_revision_at_subindex_2(objects, product_revision_) ==
    custom_entry(objects, const_object(\h1018, 2, U32(product_revision_)))
product_revision(objects, product_revision_) ==
    custom_entry(objects, const_object(\h1018, 3, U32(product_revision_)))
serial_number(objects, serial_number_) ==
    custom_entry(objects, const_object(\h1018, 4, U32(serial_number_)))

\* ObjectDictionaryBuilder::build: the struct ObjectDictionary; the slots
\* behind the registered objects hold the object new() filled the array with
build(objects, node_id) ==
    [number_of_objects |-> Len(objects),
     object |-> objects \o [i \in 1..MAX_NUMBER_OF_OBJECTS - Len(objects)
                                |-> const_object(0, 0, U8(0))],
     node_id |-> node_id]

\* what array_index returns: Ok(i) or Err(ObjectDoesNotExist {index, subindex})
ArrayIndexResult(found, index, subindex) ==
    [ok |-> found.ok, i |-> found.i,
     err |-> IF found.ok THEN "" ELSE "ObjectDoesNotExist",
     index |-> index, subindex |-> subindex]

\* an array_index that searches the whole array
array_index_of_whole_array(dictionary, index, subindex) ==
    ArrayIndexResult(array_index_loop(dictionary.object, map_index(index, subindex),
                                      0, Len(dictionary.object)),
                     index, subindex)

\* ObjectDictionary::array_index on the struct
ObjectDictionary_array_index(dictionary, index, subindex) ==
    IF dictionary.number_of_objects = 0
    THEN ArrayIndexResult([ok |-> FALSE, i |-> 0], index, subindex)
    ELSE ArrayIndexResult(array_index_loop(dictionary.object, map_index(index, subindex),
                                           0, dictionary.number_of_objects),
                          index, subindex)

\* ObjectDictionary::array_index on the registered objects
array_index(objects, index, subindex) ==
    ObjectDictionary_array_index([number_of_objects |-> Len(objects), object |-> objects],
                                 index, subindex)

\* ObjectDictionary::update_pdo and persist_value are todo!(): they panic
update_pdo(index, subindex) == [panic |-> TRUE]
persist_value(index, subindex) == [panic |-> TRUE]

\* ObjectDictionary::set_object_value: [panic, ok, err, objects, handled,
\* hooked, persisted]; objects is the dictionary the call leaves behind,
\* handled says that a handler was called, hooked that update_pdo was, and
\* persisted that persist_value was, which is called when update_pdo returned
set_object_value(objects, index, subindex, value) ==
    LET a == array_index(objects, index, subindex)
        r == set_value(objects[a.i + 1], value)
        stored == [objects EXCEPT ![a.i + 1] = r.object]
    IN  IF ~a.ok
        THEN [panic |-> FALSE, ok |-> FALSE, err |-> "ObjectDoesNotExist",
              objects |-> objects, handled |-> FALSE, hooked |-> FALSE, persisted |-> FALSE]
        ELSE IF ~r.ok
        THEN [panic |-> FALSE, ok |-> FALSE, err |-> r.err, objects |-> objects,
              handled |-> r.handled, hooked |-> FALSE, persisted |-> FALSE]
        ELSE IF objects[a.i + 1].storage \in {"Variable", "Persistent"} /\ r.changed
        THEN [panic |-> update_pdo(index, subindex).panic,
              ok |-> ~update_pdo(index, subindex).panic, err |-> "",
              objects |-> stored, handled |-> r.handled, hooked |-> TRUE,
              persisted |-> objects[a.i + 1].storage = "Persistent"
                            /\ ~update_pdo(index, subindex).panic]
        ELSE [panic |-> FALSE, ok |-> TRUE, err |-> "", objects |-> stored,
              handled |-> r.handled, hooked |-> FALSE, persisted |-> FALSE]

\* a download_expedited that does not look at the privilege
download_expedited_without_privilege_check(objects, index, subindex, value) ==
    set_object_value(objects, index, subindex, value)

\* ObjectDictionary::download_expedited
download_expedited(objects, index, subindex, value) ==
    LET a == array_index(objects, index, subindex)
    IN  IF ~a.ok
        THEN [panic |-> FALSE, ok |-> FALSE, err |-> "ObjectDoesNotExist",
              objects |-> objects, handled |-> FALSE, hooked |-> FALSE, persisted |-> FALSE]
        ELSE IF objects[a.i + 1].privilege = "ReadOnly"
        THEN [panic |-> FALSE, ok |-> FALSE, err |-> "WritingForbidden",
              objects |-> objects, handled |-> FALSE, hooked |-> FALSE, persisted |-> FALSE]
        ELSE set_object_value(objects, index, subindex, value)

\* ObjectDictionary::upload
upload(objects, index, subindex) ==
    LET a == array_index(objects, index, subindex)
    IN  IF ~a.ok
        THEN [ok |-> FALSE, err |-> "ObjectDoesNotExist", value |-> S(<<>>)]
        ELSE IF objects[a.i + 1].privilege = "WriteOnly"
        THEN [ok |-> FALSE, err |-> "ReadAccessImpossible", value |-> S(<<>>)]
        ELSE get_value(objects[a.i + 1])

\* ObjectDictionary::get_object_value
get_object_value(objects, index, subindex) ==
    LET a == array_index(objects, index, subindex)
    IN  IF ~a.ok
        THEN [ok |-> FALSE, err |-> "ObjectDoesNotExist", value |-> S(<<>>)]
        ELSE get_value(objects[a.i + 1])

-----------------------------------------------------------------------------
(* node/sdo_server.rs                                                      *)

\* cast_indexed_payload_to_value_variant: the stored variant decides the
\* size the request must have; the data is truncated with `as`
cast_indexed_payload_to_value_variant(object_value, p) ==
    CASE object_value.tag = "U32" /\ p.size = "FourBytes" -> [ok |-> TRUE, value |-> U32(p.data)]
      [] object_value.tag = "I32" /\ p.size = "FourBytes" -> [ok |-> TRUE, value |-> I32(p.data)]
      [] object_value.tag = "U16" /\ p.size = "TwoBytes" ->
             [ok |-> TRUE, value |-> U16(p.data % 65536)]
      [] object_value.tag = "I16" /\ p.size = "TwoBytes" ->
             [ok |-> TRUE, value |-> I16(as_signed(p.data, 65536))]
      [] object_value.tag = "U8" /\ p.size = "OneByte" ->
             [ok |-> TRUE, value |-> U8(p.data % 256)]
      [] object_value.tag = "I8" /\ p.size = "OneByte" ->
             [ok |-> TRUE, value |-> I8(as_signed(p.data, 256))]
      [] OTHER -> [ok |-> FALSE, value |-> object_value]

\* an abort on the COB-ID of the request that echoes no index and subindex
abort_response_without_echo(node_id, index, subindex, name) ==
    WithIndexFrameBuilder_build(
        abort(with_index(sdo_request(node_id), 0, 0), AbortCode(name)))

\* an abort response of the server
abort_response(node_id, index, subindex, name) ==
    WithIndexFrameBuilder_build(
        abort(with_index(sdo_response(node_id), index, subindex), AbortCode(name)))

\* SdoServer::process_segmented
process_segmented(node_id, index, subindex) ==
    abort_response(node_id, index, subindex, "ObjectDoesNotExist")

\* SdoServer::send_expedited_object_value
send_expedited_object_value(node_id, index, subindex, value) ==
    WithIndexFrameBuilder_build(
        download(with_index(sdo_response(node_id), index, subindex),
                 to_little_endian_buffer(value)))

\* the Download arm of process_frame_with_index: [panic, objects, response,
\* handled]; handled says that the handler of a NoStorage object was called
process_download(objects, node_id, p) ==
    LET object == get_object_value(objects, p.index, p.subindex)
        value == cast_indexed_payload_to_value_variant(object.value, p)
        d == download_expedited(objects, p.index, p.subindex, value.value)
    IN  IF ~object.ok
        THEN [panic |-> FALSE, objects |-> objects,
              response |-> <<abort_response(node_id, p.index, p.subindex,
                                            "ObjectDoesNotExist")>>,
              handled |-> FALSE]
        ELSE IF ~value.ok
        THEN [panic |-> FALSE, objects |-> objects,
              response |-> <<abort_response(node_id, p.index, p.subindex, "WrongLength")>>,
              handled |-> FALSE]
        ELSE IF d.panic
        THEN [panic |-> TRUE, objects |-> d.objects, response |-> <<>>,
              handled |-> d.handled]
        ELSE IF d.ok
        THEN [panic |-> FALSE, objects |-> d.objects,
              response |-> <<WithIndexFrameBuilder_build(download_response(
                                 with_index(sdo_response(node_id), p.index, p.subindex)))>>,
              handled |-> d.handled]
        ELSE [panic |-> FALSE, objects |-> d.objects,
              response |-> <<abort_response(node_id, p.index, p.subindex,
                                 IF d.err \in {"CannotWriteToConstStorage", "WritingForbidden"}
                                 THEN "WriteReadOnlyError" ELSE "DictionaryError")>>,
              handled |-> d.handled]

\* the Upload arm of process_frame_with_index
process_upload(objects, node_id, p) ==
    LET u == upload(objects, p.index, p.subindex)
    IN  IF u.ok
        THEN IF u.value.tag = "S"
             THEN process_segmented(node_id, p.index, p.subindex)
             ELSE send_expedited_object_value(node_id, p.index, p.subindex, u.value)
        ELSE abort_response(node_id, p.index, p.subindex,
                 CASE u.err = "ObjectDoesNotExist" -> "ObjectDoesNotExist"
                   [] u.err = "ReadAccessImpossible" -> "WriteReadOnlyError"
                   [] OTHER -> "DictionaryError")

\* SdoServer::process_frame_with_index: [panic, objects, response]; response
\* is <<>> for None and <<frame>> for Some(frame)
process_frame_with_index(objects, node_id, frame) ==
    LET p == frame.payload
    IN  IF p.kind # "SdoWithIndex"
        THEN [panic |-> FALSE, objects |-> objects, response |-> <<>>]
        ELSE IF p.cs = Ccs("Download")
        THEN process_download(objects, node_id, p)
        ELSE [panic |-> FALSE, objects |-> objects,
              response |->
                  <<CASE p.cs = Ccs("Upload") -> process_upload(objects, node_id, p)
                      [] p.cs.side = "Ccs" ->
                             abort_response(node_id, p.index, p.subindex, "UnsupportedAccess")
                      [] OTHER ->
                             abort_response(node_id, p.index, p.subindex, "GeneralError")>>]

\* SdoSession::default(), the session of SdoServer::new; a server that holds
\* it has no session
SdoSession_default ==
    [object_index |-> 0, object_subindex |-> 0, data_index |-> 0, data_size |-> 0,
     segment_number |-> 0, toggle_flag |-> FALSE, acknowledge_frame |-> 0]

\* SdoServer::next_sdo_frame: whether the loop returns this raw frame
next_sdo_frame_accepts(node_id, raw) ==
    LET f == CANOpenFrame_try_from(raw)
    IN  f.ok /\ f.frame.node_id = node_id /\ f.frame.frame_type \in {"SdoTx", "SdoRx"}

\* a process_frame that handles every frame next_sdo_frame returned, an
\* SdoTx frame of the node too
process_frame_without_filter(objects, node_id, frame) ==
    LET r == process_frame_with_index(objects, node_id, frame)
    IN  [panic |-> r.panic, objects |-> r.objects,
         response |-> IF r.response = <<>> THEN <<>>
                      ELSE <<CANOpenFrame_into(r.response[1])>>]

\* SdoServer::process_frame on a frame next_sdo_frame returned:
\* [panic, objects, response]; the response is the raw frame handed to
\* can_socket.write_frame
process_frame(objects, node_id, frame) ==
    LET r == process_frame_with_index(objects, node_id, frame)
    IN  IF frame.node_id = node_id /\ frame.frame_type = "SdoRx"
        THEN [panic |-> r.panic, objects |-> r.objects,
              response |-> IF r.response = <<>> THEN <<>>
                           ELSE <<CANOpenFrame_into(r.response[1])>>]
        ELSE [panic |-> FALSE, objects |-> objects, response |-> <<>>]

-----------------------------------------------------------------------------
(* sdo_client.rs.  A Result is [ok, n, err, abort_code, max_length,        *)
(* given_length]: Ok(n) of read_object, Ok(()) of write_object as Ok(0),   *)
(* Err(error) with the fields of the error.                                *)

Ok(n) ==
    [ok |-> TRUE, n |-> n, err |-> "", abort_code |-> AbortCode(""),
     max_length |-> 0, given_length |-> 0]
Err(error) ==
    [ok |-> FALSE, n |-> 0, err |-> error, abort_code |-> AbortCode(""),
     max_length |-> 0, given_length |-> 0]
SdoAbortCodeError(abort_code) ==
    [ok |-> FALSE, n |-> 0, err |-> "SdoAbortCode", abort_code |-> abort_code,
     max_length |-> 0, given_length |-> 0]
\* CanOpenError::StringIsTooLong {max_length, given_length}
StringIsTooLong(max_length, given_length) ==
    [ok |-> FALSE, n |-> 0, err |-> "StringIsTooLong", abort_code |-> AbortCode(""),
     max_length |-> max_length, given_length |-> given_length]

\* the setter toggle(bool) of WithoutIndexFrameBuilder that read_segment calls
WithoutIndexFrameBuilder_toggle(w, toggle) == [w EXCEPT !.toggle = toggle]

\* the request frame read_indexed writes
read_indexed_request(node_id, index, subindex) ==
    CANOpenFrame_into(WithIndexFrameBuilder_build(
        upload_request(with_index(sdo_request(node_id), index, subindex))))

\* the request frame read_segment writes
read_segment_request(node_id, toggle) ==
    CANOpenFrame_into(WithoutIndexFrameBuilder_build(
        WithoutIndexFrameBuilder_toggle(
            WithoutIndexFrameBuilder_upload_request(without_index(sdo_request(node_id))),
            toggle)))

\* the request frame write_object writes (download panics above 4 bytes)
write_object_request(node_id, index, subindex, bytes) ==
    CANOpenFrame_into(WithIndexFrameBuilder_build(
        download(with_index(sdo_request(node_id), index, subindex), bytes)))

\* whether a decoded frame passes the checks on node, type, payload variant,
\* index and subindex in the loops of read_indexed and write_object
is_indexed_response(node_id, index, subindex, frame) ==
    /\ frame.node_id = node_id
    /\ frame.frame_type = "SdoTx"
    /\ frame.payload.kind = "SdoWithIndex"
    /\ frame.payload.index = index
    /\ frame.payload.subindex = subindex

\* a read_indexed loop that does not compare the announced length of a
\* segmented response with the length of the buffer
read_indexed_frame_without_length_check(node_id, index, subindex, dst, frame) ==
    LET p == frame.payload
        n == extract_length(p.size)
    IN  IF ~is_indexed_response(node_id, index, subindex, frame)
        THEN [step |-> "continue", result |-> Ok(0), dst |-> dst]
        ELSE IF p.cs = Scs("Abort")
        THEN [step |-> "return", result |-> SdoAbortCodeError(SDOAbortCode_from(p.data)),
              dst |-> dst]
        ELSE IF p.expedited_flag
        THEN [step |-> "break", result |-> Ok(n),
              dst |-> [i \in 1..Len(dst) |->
                          IF i - 1 < n THEN (p.data \div (256 ^ (i - 1))) % 256
                          ELSE dst[i]]]
        ELSE [step |-> "break", result |-> Ok(p.data), dst |-> dst]

\* one turn of the loop of read_indexed on a decoded frame: [step, result,
\* dst] with step "continue", "break" (Ok(len) follows) or "return"
read_indexed_frame(node_id, index, subindex, dst, frame) ==
    LET p == frame.payload
        n == extract_length(p.size)
    IN  IF ~is_indexed_response(node_id, index, subindex, frame)
        THEN [step |-> "continue", result |-> Ok(0), dst |-> dst]
        ELSE IF p.cs = Scs("Abort")
        THEN [step |-> "return", result |-> SdoAbortCodeError(SDOAbortCode_from(p.data)),
              dst |-> dst]
        ELSE IF p.expedited_flag
        THEN [step |-> "break", result |-> Ok(n),
              dst |-> [i \in 1..Len(dst) |->
                          IF i - 1 < n THEN (p.data \div (256 ^ (i - 1))) % 256
                          ELSE dst[i]]]
        ELSE IF p.data > Len(dst)
        THEN [step |-> "return", result |-> StringIsTooLong(Len(dst), p.data), dst |-> dst]
        ELSE [step |-> "break", result |-> Ok(p.data), dst |-> dst]

\* a read_segment loop without the check for Abort: a frame with the
\* request's index and subindex always ends the exchange with Ok(0)
read_segment_frame_without_abort_check(node_id, index, subindex, dst, frame) ==
    LET p == frame.payload
        n == 7 - (IF p.length_of_empty_bytes = <<>> THEN 0 ELSE p.length_of_empty_bytes[1])
    IN  IF ~(frame.node_id = node_id /\ frame.frame_type = "SdoTx")
        THEN [step |-> "continue", result |-> Ok(0), dst |-> dst]
        ELSE IF p.kind = "SdoWithIndex"
        THEN IF ~(p.index = index /\ p.subindex = subindex)
             THEN [step |-> "continue", result |-> Ok(0), dst |-> dst]
             ELSE [step |-> "break", result |-> Ok(0), dst |-> dst]
        ELSE IF p.kind = "SdoWithoutIndex"
        THEN IF n > Len(dst)
             THEN [step |-> "panic", result |-> Ok(0), dst |-> dst]
             ELSE [step |-> "break", result |-> Ok(n),
                   dst |-> [i \in 1..Len(dst) |-> IF i <= n THEN p.data[i] ELSE dst[i]]]
        ELSE [step |-> "continue", result |-> Ok(0), dst |-> dst]

\* a read_segment that takes every response to the object for a segment of
\* seven bytes
read_segment_frame_of_seven_bytes(node_id, index, subindex, dst, frame) ==
    LET p == frame.payload
    IN  IF ~(frame.node_id = node_id /\ frame.frame_type = "SdoTx")
        THEN [step |-> "continue", result |-> Ok(0), dst |-> dst]
        ELSE IF p.kind = "SdoWithIndex"
        THEN IF ~(p.index = index /\ p.subindex = subindex)
             THEN [step |-> "continue", result |-> Ok(0), dst |-> dst]
             ELSE IF p.cs = Scs("Abort")
             THEN [step |-> "return",
                   result |-> SdoAbortCodeError(SDOAbortCode_from(p.data)), dst |-> dst]
             ELSE IF 7 > Len(dst)
             THEN [step |-> "panic", result |-> Ok(0), dst |-> dst]
             ELSE [step |-> "break", result |-> Ok(7),
                   dst |-> [i \in 1..Len(dst) |-> IF i <= 7 THEN 0 ELSE dst[i]]]
        ELSE [step |-> "continue", result |-> Ok(0), dst |-> dst]

\* one turn of the loop of read_segment on a decoded frame; dst is the slice
\* data[bytes_already_read..]; step "panic" is the index out of bounds of
\* data[i]
read_segment_frame(node_id, index, subindex, dst, frame) ==
    LET p == frame.payload
        n == 7 - (IF p.length_of_empty_bytes = <<>> THEN 0 ELSE p.length_of_empty_bytes[1])
    IN  IF ~(frame.node_id = node_id /\ frame.frame_type = "SdoTx")
        THEN [step |-> "continue", result |-> Ok(0), dst |-> dst]
        ELSE IF p.kind = "SdoWithIndex"
        THEN IF ~(p.index = index /\ p.subindex = subindex)
             THEN [step |-> "continue", result |-> Ok(0), dst |-> dst]
             ELSE IF p.cs = Scs("Abort")
             THEN [step |-> "return",
                   result |-> SdoAbortCodeError(SDOAbortCode_from(p.data)), dst |-> dst]
             ELSE [step |-> "break", result |-> Ok(0), dst |-> dst]
        ELSE IF p.kind = "SdoWithoutIndex"
        THEN IF n > Len(dst)
             THEN [step |-> "panic", result |-> Ok(0), dst |-> dst]
             ELSE [step |-> "break", result |-> Ok(n),
                   dst |-> [i \in 1..Len(dst) |-> IF i <= n THEN p.data[i] ELSE dst[i]]]
        ELSE [step |-> "continue", result |-> Ok(0), dst |-> dst]

\* one turn of the loop of write_object on a decoded frame
write_object_frame(node_id, index, subindex, frame) ==
    IF is_indexed_response(node_id, index, subindex, frame)
    THEN [step |-> "break", result |-> Ok(0)]
    ELSE [step |-> "continue", result |-> Ok(0)]

-----------------------------------------------------------------------------
(* SpecCodec: a builder produces a frame, the frame is converted into a    *)
(* raw CAN frame, the raw frame is decoded.                                *)

CodecNodes == {0, 1, 127}
CodecObjects == {<<\h1122, \h33>>, <<0, 0>>, <<\hFFFF, \hFF>>}
CodecSlices == {<<>>, <<\h44>>, <<\h44, \h55>>, <<\h44, \h55, \h66>>,
                <<\h44, \h55, \h66, \h77>>}
CodecChunks == {<<>>, <<1, 2, 3>>, <<1, 2, 3, 4, 5, 6, 7>>}
CodecAbortCodes == {AbortCode("InvalidSequenceNumber"), AbortCode("WriteReadOnlyError"),
                    AbortCode("ReadWriteOnlyError"), UnknownAbortCode(\h11223344)}
CodecPdoIds == {\h181, \h1EF, \h201, \h47F, \h500}
CodecPdoPayloads == {<<>>, <<\hAA>>, <<1, 2, 3, 4, 5, 6, 7, 8>>}

\* every chain of calls on a WithIndexFrameBuilder that ends in build()
WithIndexBuilders(b, index, subindex) ==
    LET w == with_index(b, index, subindex)
    IN  {w, download_one_byte(w, \h44), download_two_bytes(w, \h5544),
         download_four_bytes(w, \h77665544), download_response(w), upload_request(w),
         upload_one_byte_expedited_response(w, \h44),
         upload_two_bytes_response_expedited_response(w, \h5544),
         upload_three_bytes_expedited_response(w, \h77665544),
         upload_four_bytes_expedited_response(w, \h77665544),
         upload_segmented_response(w, 9)}
        \cup {abort(w, c) : c \in CodecAbortCodes}
        \cup {download(w, s) : s \in CodecSlices}
        \cup {upload_expedited_response(w, s) : s \in CodecSlices}

\* every chain of calls on a WithoutIndexFrameBuilder before build()
WithoutIndexBuilders(b) ==
    LET w == without_index(b)
    IN  {w, WithoutIndexFrameBuilder_upload_request(w),
         WithoutIndexFrameBuilder_download_response(w)}
        \cup {WithoutIndexFrameBuilder_upload_response(w, c) : c \in CodecChunks}
        \cup {WithoutIndexFrameBuilder_download_request(w, c) : c \in CodecChunks}

\* the frames the builders produce: SDO frames with and without index (the
\* latter from the first and from the second build() of one builder) and
\* PDO frames
BuilderFrames ==
    LET sdo == {sdo_request(n) : n \in CodecNodes} \cup {sdo_response(n) : n \in CodecNodes}
    IN  UNION {{WithIndexFrameBuilder_build(w) : w \in WithIndexBuilders(b, o[1], o[2])}
                   : <<b, o>> \in sdo \X CodecObjects}
        \cup UNION {{WithoutIndexFrameBuilder_build(w),
                     WithoutIndexFrameBuilder_build(WithoutIndexFrameBuilder_built(w))}
                       : w \in UNION {WithoutIndexBuilders(b) : b \in sdo}}
        \cup {UnspecificPayloadBuilder_build(payload(pdo(r, id).b, d))
                  : <<r, id, d>> \in BOOLEAN \X CodecPdoIds \X CodecPdoPayloads}

\* a setter call: [method, value, bytes, code], the arguments the method
\* does not take left at their defaults
BuilderCall(method, value, bytes, code) ==
    [method |-> method, value |-> value, bytes |-> bytes, code |-> code]
NoCall == BuilderCall("", 0, <<>>, AbortCode(""))

\* a function call [fn, args]; Idle when none was made
Call(fn, args) == [fn |-> fn, args |-> args]
Idle == Call("", <<>>)

CallRest ==
    /\ f_call = Idle
    /\ f_result = <<>>

BuilderRest ==
    /\ b_builder = <<>>
    /\ b_call = NoCall
    /\ b_builds = 0
    /\ b_frame = <<>>

CodecRest ==
    /\ c_phase = "off"
    /\ c_typed = <<>>
    /\ c_raw = <<>>
    /\ c_decoded = <<>>
    /\ BuilderRest
    /\ CallRest

ServerRest ==
    /\ s_phase = "off"
    /\ s_node = 0
    /\ od = <<>>
    /\ s_request = <<>>
    /\ s_response = <<>>
    /\ s_od_before = <<>>
    /\ s_session = SdoSession_default

\* no operation was called and nothing is queued
SocketRest ==
    /\ cl_calls = 0
    /\ cl_requests = <<>>
    /\ cl_socket = <<>>
    /\ cl_taken = <<>>

ClientRest ==
    /\ cl_pc = "off"
    /\ cl_node = 0
    /\ cl_op = [kind |-> "none", index |-> 0, subindex |-> 0, bytes |-> <<>>]
    /\ cl_dst = <<>>
    /\ cl_result = <<>>
    /\ cl_len = 0
    /\ cl_bytes_already_read = 0
    /\ cl_toggle = FALSE
    /\ cl_elapsed = 0
    /\ cl_sent = <<>>
    /\ cl_last_rx = <<>>
    /\ cl_sent_after_rx = FALSE
    /\ cl_ended_by = ""
    /\ SocketRest

CodecInit ==
    /\ c_phase = "idle"
    /\ c_typed = <<>>
    /\ c_raw = <<>>
    /\ c_decoded = <<>>
    /\ BuilderRest
    /\ CallRest
    /\ ServerRest
    /\ ClientRest

Build ==
    /\ c_phase = "idle"
    /\ \E f \in BuilderFrames : c_typed' = <<f>>
    /\ c_phase' = "built"
    /\ UNCHANGED <<c_raw, c_decoded, builderVars, callVars,
                   serverVars, clientVars>>

Convert ==
    /\ c_phase = "built"
    /\ c_raw' = <<CANOpenFrame_into(c_typed[1])>>
    /\ c_phase' = "raw"
    /\ UNCHANGED <<c_typed, c_decoded, builderVars, callVars,
                   serverVars, clientVars>>

Decode ==
    /\ c_phase = "raw"
    /\ c_decoded' = <<CANOpenFrame_try_from(c_raw[1])>>
    /\ c_phase' = "decoded"
    /\ UNCHANGED <<c_typed, c_raw, builderVars, callVars,
                   serverVars, clientVars>>

CodecNext == Build \/ Convert \/ Decode

SpecCodec == CodecInit /\ [][CodecNext]_vars

-----------------------------------------------------------------------------
(* SpecBuilder: an SDO frame builder is made, setters are called on it and *)
(* build() is called on it, any number of times in any order.              *)

MaxBuilds == 3

BuilderChunks ==
    {<<>>, <<1, 2>>, <<1, 2, 3>>, <<1, 2, 3, 4, 5, 6, 7>>,
     <<1, 2, 3, 4, 5, 6, 7, 8, 9>>}
BuilderSlices == CodecSlices \cup {<<\h44, \h55, \h66, \h77, \h88>>}
BuilderAbortCodes == CodecAbortCodes \cup {AbortCode("UnsupportedAccess")}

\* the setter calls of a WithIndexFrameBuilder
WithIndexCalls ==
    {BuilderCall(m, v, <<>>, AbortCode("")) :
         <<m, v>> \in {<<"download_one_byte", \h44>>, <<"download_one_byte", \hFF>>,
                       <<"download_two_bytes", \h5544>>,
                       <<"download_four_bytes", \h77665544>>,
                       <<"download_response", 0>>, <<"upload_request", 0>>,
                       <<"upload_one_byte_expedited_response", \h44>>,
                       <<"upload_two_bytes_response_expedited_response", \h5544>>,
                       <<"upload_three_bytes_expedited_response", \h77665544>>,
                       <<"upload_three_bytes_expedited_response", \h665544>>,
                       <<"upload_four_bytes_expedited_response", \h77665544>>,
                       <<"upload_segmented_response", 5>>,
                       <<"upload_segmented_response", 300>>}}
    \cup {BuilderCall("abort", 0, <<>>, c) : c \in BuilderAbortCodes}
    \cup {BuilderCall(m, 0, b, AbortCode("")) :
              <<m, b>> \in {"download", "upload_expedited_response"} \X BuilderSlices}

\* the setter calls of a WithoutIndexFrameBuilder
WithoutIndexCalls ==
    {BuilderCall(m, 0, <<>>, AbortCode("")) : m \in {"upload_request", "download_response"}}
    \cup {BuilderCall(m, 0, c, AbortCode("")) :
              <<m, c>> \in {"upload_response", "download_request"} \X BuilderChunks}

\* `mut self` setters of WithIndexFrameBuilder: the builder after the call
WithIndexFrameBuilder_call(w, call) ==
    CASE call.method = "abort" -> abort(w, call.code)
      [] call.method = "download_one_byte" -> download_one_byte(w, call.value)
      [] call.method = "download_two_bytes" -> download_two_bytes(w, call.value)
      [] call.method = "download_four_bytes" -> download_four_bytes(w, call.value)
      [] call.method = "download_response" -> download_response(w)
      [] call.method = "upload_request" -> upload_request(w)
      [] call.method = "upload_one_byte_expedited_response" ->
             upload_one_byte_expedited_response(w, call.value)
      [] call.method = "upload_two_bytes_response_expedited_response" ->
             upload_two_bytes_response_expedited_response(w, call.value)
      [] call.method = "upload_three_bytes_expedited_response" ->
             upload_three_bytes_expedited_response(w, call.value)
      [] call.method = "upload_four_bytes_expedited_response" ->
             upload_four_bytes_expedited_response(w, call.value)
      [] call.method = "upload_segmented_response" ->
             upload_segmented_response(w, call.value)
      [] call.method = "download" -> download(w, call.bytes)
      [] call.method = "upload_expedited_response" ->
             upload_expedited_response(w, call.bytes)

\* `mut self` setters of WithoutIndexFrameBuilder: the builder after the call
WithoutIndexFrameBuilder_call(w, call) ==
    CASE call.method = "upload_request" -> WithoutIndexFrameBuilder_upload_request(w)
      [] call.method = "download_response" -> WithoutIndexFrameBuilder_download_response(w)
      [] call.method = "upload_response" ->
             WithoutIndexFrameBuilder_upload_response(w, call.bytes)
      [] call.method = "download_request" ->
             WithoutIndexFrameBuilder_download_request(w, call.bytes)

HasWithIndexBuilder == b_builder # <<>> /\ "index" \in DOMAIN b_builder[1]
HasWithoutIndexBuilder == b_builder # <<>> /\ "toggle" \in DOMAIN b_builder[1]

BuilderInit == CodecRest /\ ServerRest /\ ClientRest

\* CanOpenFrameBuilder::sdo_request(node) or sdo_response(node), unwrapped,
\* then with_index(index, subindex)
NewWithIndex ==
    /\ b_builder = <<>>
    /\ b_call = NoCall
    /\ \E n \in CodecNodes, o \in CodecObjects :
           \E b \in {sdo_request(n), sdo_response(n)} :
               b_builder' = <<with_index(b, o[1], o[2])>>
    /\ UNCHANGED <<b_call, b_builds, b_frame, c_phase, c_typed, c_raw, c_decoded,
                   callVars,
                   serverVars, clientVars>>

\* sdo_request(node) or sdo_response(node), then without_index()
NewWithoutIndex ==
    /\ b_builder = <<>>
    /\ b_call = NoCall
    /\ \E n \in CodecNodes :
           \E b \in {sdo_request(n), sdo_response(n)} :
               b_builder' = <<without_index(b)>>
    /\ UNCHANGED <<b_call, b_builds, b_frame, c_phase, c_typed, c_raw, c_decoded,
                   callVars,
                   serverVars, clientVars>>

\* a setter of the WithIndexFrameBuilder is called; download and
\* upload_expedited_response panic for a slice of more than four bytes
CallWithIndex ==
    /\ HasWithIndexBuilder
    /\ \E call \in WithIndexCalls :
           /\ b_call' = call
           /\ b_builder' = IF Len(call.bytes) > 4 THEN <<>>
                           ELSE <<WithIndexFrameBuilder_call(b_builder[1], call)>>
    /\ b_frame' = <<>>
    /\ UNCHANGED <<b_builds, c_phase, c_typed, c_raw, c_decoded, callVars,
                   serverVars, clientVars>>

\* a setter of the WithoutIndexFrameBuilder is called
CallWithoutIndex ==
    /\ HasWithoutIndexBuilder
    /\ \E call \in WithoutIndexCalls :
           /\ b_call' = call
           /\ b_builder' = <<WithoutIndexFrameBuilder_call(b_builder[1], call)>>
    /\ b_frame' = <<>>
    /\ UNCHANGED <<b_builds, c_phase, c_typed, c_raw, c_decoded, callVars,
                   serverVars, clientVars>>

\* WithIndexFrameBuilder::build(&self)
BuildWithIndex ==
    /\ HasWithIndexBuilder
    /\ b_builds < MaxBuilds
    /\ b_frame' = <<WithIndexFrameBuilder_build(b_builder[1])>>
    /\ b_builds' = b_builds + 1
    /\ UNCHANGED <<b_builder, b_call, c_phase, c_typed, c_raw, c_decoded,
                   callVars,
                   serverVars, clientVars>>

\* WithoutIndexFrameBuilder::build(&mut self)
BuildWithoutIndex ==
    /\ HasWithoutIndexBuilder
    /\ b_builds < MaxBuilds
    /\ b_frame' = <<WithoutIndexFrameBuilder_build(b_builder[1])>>
    /\ b_builder' = <<WithoutIndexFrameBuilder_built(b_builder[1])>>
    /\ b_builds' = b_builds + 1
    /\ UNCHANGED <<b_call, c_phase, c_typed, c_raw, c_decoded, callVars,
                   serverVars, clientVars>>

BuilderNext ==
    \/ NewWithIndex
    \/ NewWithoutIndex
    \/ CallWithIndex
    \/ CallWithoutIndex
    \/ BuildWithIndex
    \/ BuildWithoutIndex

SpecBuilder == BuilderInit /\ [][BuilderNext]_vars

\* C1: for every frame a builder produces, decoding its raw CAN frame gives
\* a frame with the same node_id, frame_type and is_rtr and an equal payload
\* of the same variant.
C1_RoundTrip ==
    c_phase = "decoded" =>
        /\ c_decoded[1].ok
        /\ c_decoded[1].frame.node_id = c_typed[1].node_id
        /\ c_decoded[1].frame.frame_type = c_typed[1].frame_type
        /\ c_decoded[1].frame.is_rtr = c_typed[1].is_rtr
        /\ c_decoded[1].frame.payload.kind = c_typed[1].payload.kind
        /\ c_decoded[1].frame.payload = c_typed[1].payload

\* a frame built as SdoWithoutIndex was decoded as another variant
C1_Witness ==
    /\ c_phase = "decoded"
    /\ c_decoded[1].ok
    /\ c_typed[1].payload.kind = "SdoWithoutIndex"
    /\ c_decoded[1].frame.payload.kind # "SdoWithoutIndex"

-----------------------------------------------------------------------------
(* SpecCalls: one function of the library is called on an input; f_call    *)
(* records the call and f_result what it returned.                         *)

\* every SDOAbortCode of the table, and UnknownAbortCode of values in and
\* out of the table
AbortCodeInputs ==
    {AbortCode(n) : n \in DOMAIN SDOAbortCodeTable}
    \cup {UnknownAbortCode(x) : x \in {0, \h11223344, \h08000000}}

\* 32-bit values: the constants of the table, their neighbours, and others
U32Inputs ==
    {SDOAbortCodeTable[n] : n \in DOMAIN SDOAbortCodeTable}
    \cup {SDOAbortCodeTable[n] + 1 : n \in DOMAIN SDOAbortCodeTable}
    \cup {0, 1, \h06010003, \h11223344, \h7FFFFFFF}

CallsInit == CodecRest /\ ServerRest /\ ClientRest

\* an SDOAbortCode is converted into u32, and that u32 back
AbortCodeIntoU32 ==
    /\ f_call = Idle
    /\ \E c \in AbortCodeInputs :
           /\ f_call' = Call("SDOAbortCode::into", <<c>>)
           /\ f_result' = <<SDOAbortCode_into_u32(c),
                            SDOAbortCode_from(SDOAbortCode_into_u32(c))>>
    /\ UNCHANGED <<c_phase, c_typed, c_raw, c_decoded, builderVars, serverVars, clientVars>>

\* a u32 is converted into an SDOAbortCode, and that code back
AbortCodeFromU32 ==
    /\ f_call = Idle
    /\ \E x \in U32Inputs :
           /\ f_call' = Call("SDOAbortCode::from", <<x>>)
           /\ f_result' = <<SDOAbortCode_from(x),
                            SDOAbortCode_into_u32(SDOAbortCode_from(x))>>
    /\ UNCHANGED <<c_phase, c_typed, c_raw, c_decoded, builderVars, serverVars, clientVars>>

\* raw CAN frames: every 11-bit id and ids above, without data; for SdoRx
\* and SdoTx of node 1 every command byte in a frame of eight bytes; SDO
\* frames of fewer bytes and frames of other types of every length
RawIds == (0..\h7FF) \cup {\h800, \h881, \hFFFF, \h1FFFFFFF}
RawPayload == <<\h11, \h22, \h33, \h44, \h55, \h66, \h77, \h08>>
RawInputs ==
    {[id |-> id, data |-> <<>>, rtr |-> FALSE] : id \in RawIds}
    \cup {[id |-> id, data |-> <<c, \h22, \h11, \h33, \h44, \h55, \h66, \h77>>, rtr |-> FALSE]
              : <<id, c>> \in {\h601, \h581} \X (0..255)}
    \cup {[id |-> id, data |-> SubSeq(RawPayload, 1, n), rtr |-> r]
              : <<id, n, r>> \in {\h601, \h581, \h001, \h081, \h181, \h57F, \h701}
                                    \X (0..8) \X BOOLEAN}

\* TryFrom<CANFrame> for CANOpenFrame
TryFrom ==
    /\ f_call = Idle
    /\ \E raw \in RawInputs :
           /\ f_call' = Call("CANOpenFrame::try_from", <<raw>>)
           /\ f_result' = <<CANOpenFrame_try_from(raw)>>
    /\ UNCHANGED <<c_phase, c_typed, c_raw, c_decoded, builderVars, serverVars, clientVars>>

\* COB-IDs for the PDO builder: around and inside 0x180..0x5FF, and others
PdoIdInputs == (\h170..\h610) \cup {0, \h7FF, \h981, \hFFFF}

\* CanOpenFrameBuilder::default().set_rtr(is_rtr).pdo(cob_id)
Pdo ==
    /\ f_call = Idle
    /\ \E id \in PdoIdInputs, is_rtr \in BOOLEAN :
           /\ f_call' = Call("CanOpenFrameBuilder::pdo", <<id, is_rtr>>)
           /\ f_result' = <<pdo(is_rtr, id)>>
    /\ UNCHANGED <<c_phase, c_typed, c_raw, c_decoded, builderVars, serverVars, clientVars>>

MaxRegistered == 2

\* objects an application registers: below, between and above the objects
\* of new(), the objects of two shorthand setters, a command
RegisteredObjects ==
    {const_object(0, 0, U8(0)),
     const_object(\h1200, \hFF, U8(0)),
     const_object(\hFFFE, \hFF, U8(0)),
     const_object(\hFFFF, \hFF, U8(0)),
     const_object(\h1008, 1, S(<<97, 98>>)),
     const_object(\h1018, 2, U32(1)),
     nostorage_object(\h2003, 1)}

\* custom_entry of the objects of a sequence, first to last, on new(123, 456)
RECURSIVE Registered(_)
Registered(objects) ==
    IF objects = <<>>
    THEN [panic |-> FALSE, objects |-> ObjectDictionaryBuilder_new(123, 456), written |-> {}]
    ELSE LET before == Registered(SubSeq(objects, 1, Len(objects) - 1))
         IN  IF before.panic THEN before
             ELSE custom_entry(before.objects, objects[Len(objects)])

\* the loop of the test insert_if_no_space_left_in_od on a builder: the
\* objects of index first..last and subindex 13 are registered in this
\* order (evaluated half by half, the first half before the second)
RECURSIVE insert_loop(_, _, _)
insert_loop(objects, first, last) ==
    IF first > last THEN objects
    ELSE IF first = last
    THEN custom_entry(objects, const_object(first, 13, U8(0))).objects
    ELSE LET half == insert_loop(objects, first, (first + last) \div 2)
         IN  IF Len(half) >= 0
             THEN insert_loop(half, (first + last) \div 2 + 1, last)
             ELSE half

\* the builder after count turns of that loop on new(123, 456)
Filled(count) == insert_loop(ObjectDictionaryBuilder_new(123, 456), 0, count - 1)

\* builders: up to MaxRegistered of the objects registered in every order,
\* and builders with one free slot and with none
BuilderInputs ==
    {Registered(q).objects :
        q \in {q \in UNION {[1..n -> RegisteredObjects] : n \in 0..MaxRegistered}
                  : ~Registered(q).panic}}
    \cup {Filled(MAX_NUMBER_OF_OBJECTS - 4), Filled(MAX_NUMBER_OF_OBJECTS - 3)}

\* the objects handed to custom_entry: the objects above, objects that are
\* registered already (first, last of new(), first, middle and last of the
\* filled builders) and objects that are not
ObjectInputs ==
    RegisteredObjects
    \cup {const_object(\h1000, 1, U8(0)), const_object(\h1018, 1, U8(7)),
          const_object(0, 13, U8(1)), const_object(100, 13, U8(1)),
          const_object(\h1001, 1, U32(5)), const_object(\h3000, 0, U16(9))}

\* ObjectDictionaryBuilder::custom_entry on a builder
BuilderCustomEntry ==
    /\ f_call = Idle
    /\ \E b \in BuilderInputs, object \in ObjectInputs :
           /\ f_call' = Call("ObjectDictionaryBuilder::custom_entry", <<b, object>>)
           /\ f_result' = <<custom_entry(b, object)>>
    /\ UNCHANGED <<c_phase, c_typed, c_raw, c_decoded, builderVars, serverVars, clientVars>>

\* the dictionaries of the test od_access (slot i holds the object of index
\* i + 1, the first number_of_objects slots are registered), and the ones
\* built from the builders above
DictionaryInputs ==
    {[number_of_objects |-> n,
      object |-> [i \in 1..MAX_NUMBER_OF_OBJECTS |-> const_object(i, 0, U8(0))],
      node_id |-> 10] : n \in {0, 1, 2, 3, 4, 5, 100, 255, 256}}
    \cup {build(b, 10) : b \in BuilderInputs}

\* the objects looked up: every index of the test dictionaries with the
\* indices below and above, other subindices, the objects of the builders
KeyInputs ==
    ((0..MAX_NUMBER_OF_OBJECTS + 1) \X {0})
    \cup {<<1, 5>>, <<40, 1>>, <<99, 1>>, <<0, 13>>, <<100, 13>>, <<252, 13>>,
          <<\h1000, 1>>, <<\h1001, 1>>, <<\h1008, 1>>, <<\h1018, 1>>, <<\h1018, 2>>,
          <<\h1200, \hFF>>, <<\h2003, 1>>, <<\hFFFE, \hFF>>, <<\hFFFF, \hFF>>}

\* ObjectDictionary::array_index
ArrayIndex ==
    /\ f_call = Idle
    /\ \E d \in DictionaryInputs, key \in KeyInputs :
           /\ f_call' = Call("ObjectDictionary::array_index", <<d, key[1], key[2]>>)
           /\ f_result' = <<ObjectDictionary_array_index(d, key[1], key[2])>>
    /\ UNCHANGED <<c_phase, c_typed, c_raw, c_decoded, builderVars, serverVars, clientVars>>

\* the shorthand setters with the values they are called with
SetterCalls ==
    {[setter |-> "device_name", s |-> <<68, 101, 118>>, v |-> 0],
     [setter |-> "hardware_version", s |-> <<82, 49>>, v |-> 0],
     [setter |-> "software_version", s |-> <<49, 46, 48>>, v |-> 0],
     [setter |-> "product_identifier", s |-> <<>>, v |-> 1],
     [setter |-> "product_revision", s |-> <<>>, v |-> 1],
     [setter |-> "serial_number", s |-> <<>>, v |-> 123456]}

\* one setter called on a builder
shorthand(objects, call) ==
    CASE call.setter = "device_name" -> device_name(objects, call.s)
      [] call.setter = "hardware_version" -> hardware_version(objects, call.s)
      [] call.setter = "software_version" -> software_version(objects, call.s)
      [] call.setter = "product_identifier" -> product_identifier(objects, call.v)
      [] call.setter = "product_revision" -> product_revision(objects, call.v)
      [] call.setter = "serial_number" -> serial_number(objects, call.v)

\* the setters of a sequence called one after the other
RECURSIVE shorthand_chain(_, _)
shorthand_chain(objects, calls) ==
    IF calls = <<>> THEN [panic |-> FALSE, objects |-> objects, written |-> {}]
    ELSE LET first == shorthand(objects, Head(calls))
         IN  IF first.panic THEN first ELSE shorthand_chain(first.objects, Tail(calls))

\* every subset of the setters in every order
SetterSequences ==
    {q \in UNION {[1..n -> SetterCalls] : n \in 0..Cardinality(SetterCalls)}
        : \A i, j \in DOMAIN q : q[i] = q[j] => i = j}

\* ObjectDictionaryBuilder::new(device_type, vendor_id), setters, build(node_id)
BuildDictionary ==
    /\ f_call = Idle
    /\ \E device_type \in {0, \h0FFF0192}, vendor_id \in {\h2A}, calls \in SetterSequences :
           LET chain == shorthand_chain(ObjectDictionaryBuilder_new(device_type, vendor_id),
                                        calls)
           IN  /\ f_call' = Call("ObjectDictionaryBuilder::build",
                                 <<device_type, vendor_id, calls>>)
               /\ f_result' = <<[panic |-> chain.panic,
                                 dictionary |-> build(chain.objects, 20)]>>
    /\ UNCHANGED <<c_phase, c_typed, c_raw, c_decoded, builderVars, serverVars, clientVars>>

\* initial values of every variant
ConstructorValues ==
    {U8(\h11), U16(\h1122), U32(\h11223344), I8(-1), I16(-2), I32(-3),
     F32(\h3F800000), S(<<>>), S(<<97, 98>>)}

\* CanOpenObject::variable_object and CanOpenObject::persistent_object
ConstructObject ==
    /\ f_call = Idle
    /\ \E key \in {<<\h2000, 1>>, <<\hFFFF, \hFF>>}, value \in ConstructorValues :
           \/ /\ f_call' = Call("CanOpenObject::variable_object", <<key[1], key[2], value>>)
              /\ f_result' = <<variable_object(key[1], key[2], value)>>
           \/ /\ f_call' = Call("CanOpenObject::persistent_object", <<key[1], key[2], value>>)
              /\ f_result' = <<persistent_object(key[1], key[2], value)>>
    /\ UNCHANGED <<c_phase, c_typed, c_raw, c_decoded, builderVars, serverVars, clientVars>>

\* integers of every variant: zero, one, the greatest and the least, others
IntegerValues ==
    {U8(x) : x \in {0, 1, \h7F, \h80, \hFF}}
    \cup {U16(x) : x \in {0, 1, \h00FF, \h0100, \h1234, \hFFFF}}
    \cup {U32(x) : x \in {0, 1, \h11223344, \h0FFF0192, \h7FFFFFFF}}
    \cup {I8(x) : x \in {0, 1, -1, 127, -128}}
    \cup {I16(x) : x \in {0, 1, -1, 32767, -32768, \h1234}}
    \cup {I32(x) : x \in {0, 1, -1, \h7FFFFFFF, -2147483647, \h11223344}}

\* the type tags of cot
ValueTypes == {"None", "U8", "U16", "U32", "I8", "I16", "I32", "F32", "STR"}

\* buffers: the bytes of every integer above, and buffers of 0 to 5 bytes
BufferInputs ==
    {to_little_endian_buffer(v) : v \in IntegerValues}
    \cup {SubSeq(<<\h61, \h62, \h63, \h64, \h65>>, 1, n) : n \in 0..5}
    \cup {<<\hFF, \h61>>}

\* cot parse_buffer_as
ParseBufferAs ==
    /\ f_call = Idle
    /\ \E value_type \in ValueTypes, data \in BufferInputs :
           /\ f_call' = Call("parse_buffer_as", <<value_type, data>>)
           /\ f_result' = <<parse_buffer_as(value_type, data)>>
    /\ UNCHANGED <<c_phase, c_typed, c_raw, c_decoded, builderVars, serverVars, clientVars>>

CallsNext ==
    \/ BuilderCustomEntry
    \/ ParseBufferAs
    \/ ConstructObject
    \/ BuildDictionary
    \/ ArrayIndex
    \/ AbortCodeIntoU32
    \/ AbortCodeFromU32
    \/ TryFrom
    \/ Pdo

SpecCalls == CallsInit /\ [][CallsNext]_vars

-----------------------------------------------------------------------------
(* SpecServer: the node builds its object dictionary, then serves the      *)
(* frames it reads from the bus (the loop of examples/minimal-node.rs:     *)
(* next_sdo_frame, process_frame).                                         *)

MaxCustomEntries == 2

ServerNodes == {1, 5}

\* the objects an application constructs to register them besides the three
\* of new(), as [panic, object]: Const entries (a string, a duplicate of
\* 0x1000,01), Variable and Persistent entries, a NoStorage command
Constructed(object) == [panic |-> FALSE, object |-> object]
CandidateObjects ==
    {Constructed(const_object(\h1008, 1, S(<<97, 98, 99, 100, 101>>))),
     Constructed(const_object(\h1000, 1, U8(0))),
     variable_object(\h2000, 1, U8(\h11)),
     persistent_object(\h2001, 1, U16(\h0011)),
     variable_object(\h2004, 1, S(<<97, 98>>)),
     Constructed(nostorage_object(\h2003, 1))}

RequestObjects == {<<\h1000, 1>>, <<\h1008, 1>>, <<\h2000, 1>>, <<\h2001, 1>>,
                   <<\h2003, 1>>, <<\h2004, 1>>, <<\h3000, 0>>}
RequestCommands == {\h2F, \h2B, \h23, \h40, \h60, \h00, \h80, \hA0, \hC0}
RequestData == {<<\h11, 0, 0, 0>>, <<\hFF, \h55, \h66, \h77>>}

\* the raw frames the server may read: SDO requests to it, and frames that
\* are none (another node, SdoTx, a PDO, an invalid COB-ID, a short frame)
ServerInbound(node) ==
    {[id |-> \h600 + node, data |-> <<c, lo16(o[1]), hi16(o[1]), o[2]>> \o d, rtr |-> FALSE]
         : <<c, o, d>> \in RequestCommands \X RequestObjects \X RequestData}
    \cup {[id |-> \h600 + node + 1, data |-> <<\h2F, 0, \h20, 1, \h44, 0, 0, 0>>, rtr |-> FALSE],
          [id |-> \h580 + node, data |-> <<\h60, 0, \h20, 1, 0, 0, 0, 0>>, rtr |-> FALSE],
          [id |-> \h180 + node, data |-> <<1, 2>>, rtr |-> FALSE],
          [id |-> \h7FF, data |-> <<>>, rtr |-> FALSE],
          [id |-> \h680 + node, data |-> <<\h40, 0, \h10, 1, 0, 0, 0, 0>>, rtr |-> FALSE],
          [id |-> \h600 + node, data |-> <<\h40, 0, \h10>>, rtr |-> FALSE]}

ServerInit ==
    /\ s_phase = "build"
    /\ s_node = 0
    /\ od = ObjectDictionaryBuilder_new(\h0FFF0192, \h0000002A)
    /\ s_request = <<>>
    /\ s_response = <<>>
    /\ s_od_before = <<>>
    /\ s_session = SdoSession_default
    /\ CodecRest
    /\ ClientRest

\* the application constructs an object and hands it to
\* ObjectDictionaryBuilder::custom_entry
CustomEntry ==
    /\ s_phase = "build"
    /\ Len(od) < 3 + MaxCustomEntries
    /\ \E c \in CandidateObjects :
           LET r == custom_entry(od, c.object)
           IN  /\ od' = IF c.panic THEN od ELSE r.objects
               /\ s_phase' = IF c.panic \/ r.panic THEN "panicked" ELSE "build"
    /\ UNCHANGED <<s_node, s_request, s_response, s_od_before, s_session, codecVars, clientVars>>

\* ObjectDictionaryBuilder::build and SdoServer::new
StartServer ==
    /\ s_phase = "build"
    /\ \E node \in ServerNodes : s_node' = node
    /\ s_phase' = "serving"
    /\ s_session' = SdoSession_default
    /\ UNCHANGED <<od, s_request, s_response, s_od_before, codecVars, clientVars>>

\* one turn of the serving loop: next_sdo_frame reads a frame; a frame it
\* does not return is skipped, a frame it returns goes to process_frame
ServeFrame(raw) ==
    LET r == process_frame(od, s_node, CANOpenFrame_try_from(raw).frame)
    IN  /\ s_request' = <<raw>>
        /\ s_od_before' = od
        /\ IF next_sdo_frame_accepts(s_node, raw)
           THEN /\ od' = r.objects
                /\ s_response' = r.response
                /\ s_phase' = IF r.panic THEN "panicked" ELSE "serving"
           ELSE /\ od' = od
                /\ s_response' = <<>>
                /\ s_phase' = "serving"
        /\ UNCHANGED <<s_node, s_session>>

Serve ==
    /\ s_phase = "serving"
    /\ \E raw \in ServerInbound(s_node) : ServeFrame(raw)
    /\ UNCHANGED <<codecVars, clientVars>>

ServerNext == CustomEntry \/ StartServer \/ Serve

SpecServer == ServerInit /\ [][ServerNext]_vars

-----------------------------------------------------------------------------
(* SpecProcessFrame: SdoServer::process_frame applied to dictionaries that  *)
(* hold writable numeric entries.  These are values of the type             *)
(* ObjectDictionary, but variable_object and persistent_object panic for    *)
(* every numeric value, so no run of SpecServer holds one.                  *)

WritableNumericObjects ==
    {CanOpenObject(\h2000, 1, "Variable", U8(\h11), "ReadWrite"),
     CanOpenObject(\h2001, 1, "Persistent", U16(\h0011), "ReadWrite")}

ProcessFrameDictionaries ==
    {custom_entry(ObjectDictionaryBuilder_new(\h0FFF0192, \h0000002A), a).objects
         : a \in WritableNumericObjects}
    \cup {custom_entry(custom_entry(ObjectDictionaryBuilder_new(\h0FFF0192, \h0000002A),
                                    a).objects, b).objects
              : <<a, b>> \in {p \in WritableNumericObjects \X WritableNumericObjects
                                : p[1] # p[2]}}

ProcessFrameInit ==
    /\ s_phase = "serving"
    /\ s_node \in ServerNodes
    /\ od \in ProcessFrameDictionaries
    /\ s_request = <<>>
    /\ s_response = <<>>
    /\ s_od_before = <<>>
    /\ s_session = SdoSession_default
    /\ CodecRest
    /\ ClientRest

SpecProcessFrame == ProcessFrameInit /\ [][Serve]_vars

-----------------------------------------------------------------------------
(* SpecDictionary: the node calls download_expedited, upload and            *)
(* set_object_value on the object dictionary it has built.  f_call records *)
(* the last call, f_result what it returned, s_od_before the dictionary    *)
(* before the call.                                                        *)

\* the objects the application has registered besides the three of new(): a
\* Variable string, a NoStorage command, a Const float, a Const number and
\* a Persistent string
DictionaryObjects ==
    {variable_object(\h2004, 1, S(<<97, 98>>)).object,
     nostorage_object(\h2003, 1),
     const_object(\h2005, 1, F32(\h3F800000)),
     const_object(\h2006, 1, I16(7)),
     persistent_object(\h2007, 1, S(<<120>>)).object}

\* custom_entry of the objects of a set on new(): one after the other, the
\* one of the least mapped index last
RECURSIVE RegisteredAll(_)
RegisteredAll(objects) ==
    IF objects = {} THEN ObjectDictionaryBuilder_new(\h0FFF0192, \h0000002A)
    ELSE LET last == CHOOSE o \in objects :
                         \A p \in objects : o.mapped_index <= p.mapped_index
         IN  custom_entry(RegisteredAll(objects \ {last}), last).objects

\* the (index, subindex) the node asks for, one of them registered nowhere
DictionaryKeys == {<<\h1000, 1>>, <<\h2003, 1>>, <<\h2004, 1>>, <<\h2005, 1>>,
                   <<\h2006, 1>>, <<\h2007, 1>>, <<\h3000, 0>>}

\* the values the node hands over
DictionaryValues == {U8(1), U32(\h0FFF0192), I16(7), I16(8), F32(\h3F800000), F32(0),
                     S(<<97, 98>>), S(<<120>>)}

DictionaryInit ==
    /\ s_phase = "serving"
    /\ s_node = 10
    /\ od \in {RegisteredAll(objects) : objects \in SUBSET DictionaryObjects}
    /\ s_request = <<>>
    /\ s_response = <<>>
    /\ s_od_before = <<>>
    /\ s_session = SdoSession_default
    /\ CodecRest
    /\ ClientRest

\* what a call on the dictionary leaves: the call, its result, the
\* dictionary before and after; a panic ends the node
DictionaryCall(call, result, objects) ==
    /\ s_phase = "serving"
    /\ f_call' = call
    /\ f_result' = <<result>>
    /\ s_od_before' = od
    /\ od' = objects
    /\ s_phase' = IF result.panic THEN "panicked" ELSE "serving"
    /\ UNCHANGED <<c_phase, c_typed, c_raw, c_decoded, builderVars,
                   s_node, s_request, s_response, s_session, clientVars>>

\* ObjectDictionary::download_expedited
DownloadExpedited ==
    \E key \in DictionaryKeys, value \in DictionaryValues :
        DictionaryCall(Call("ObjectDictionary::download_expedited",
                            <<key[1], key[2], value>>),
                       download_expedited(od, key[1], key[2], value),
                       download_expedited(od, key[1], key[2], value).objects)

\* ObjectDictionary::set_object_value
SetObjectValue ==
    \E key \in DictionaryKeys, value \in DictionaryValues :
        DictionaryCall(Call("ObjectDictionary::set_object_value",
                            <<key[1], key[2], value>>),
                       set_object_value(od, key[1], key[2], value),
                       set_object_value(od, key[1], key[2], value).objects)

\* ObjectDictionary::upload; it takes no value, and never panics
Upload ==
    \E key \in DictionaryKeys :
        DictionaryCall(Call("ObjectDictionary::upload", <<key[1], key[2], S(<<>>)>>),
                       [panic |-> FALSE, ok |-> upload(od, key[1], key[2]).ok,
                        err |-> upload(od, key[1], key[2]).err,
                        value |-> upload(od, key[1], key[2]).value],
                       od)

DictionaryNext == DownloadExpedited \/ SetObjectValue \/ Upload

SpecDictionary == DictionaryInit /\ [][DictionaryNext]_vars

\* what the properties of the server read off the raw frames
RequestIndex(raw) == raw.data[2] + 256 * raw.data[3]
RequestSubindex(raw) == raw.data[4]
RequestValue(raw) == le_u32(raw.data[5], raw.data[6], raw.data[7], raw.data[8])

\* an SDO request of 8 bytes to this node with the given ccs bits
IsRequest(ccs) ==
    /\ s_request # <<>>
    /\ s_request[1].id = \h600 + s_node
    /\ Len(s_request[1].data) = 8
    /\ s_request[1].data[1] \div 32 = ccs

\* the entries of the dictionary the request addressed, as it was before
RequestedEntries ==
    {s_od_before[i] : i \in {j \in 1..Len(s_od_before) :
        s_od_before[j].mapped_index
            = map_index(RequestIndex(s_request[1]), RequestSubindex(s_request[1]))}}
RequestedEntry == CHOOSE e \in RequestedEntries : TRUE

\* the width in bytes of a stored numeric type, 0 for a string
WidthOf(value) ==
    CASE value.tag \in {"U8", "I8"} -> 1
      [] value.tag \in {"U16", "I16"} -> 2
      [] value.tag \in {"U32", "I32"} -> 4
      [] OTHER -> 0

\* the data size an expedited request states: 4 - n with the s bit, else 0
RequestSize(raw) ==
    IF raw.data[1] % 2 = 1 THEN 4 - ((raw.data[1] \div 4) % 4) ELSE 0

\* the raw response with this command byte and 32-bit data, echoing the
\* request's index and subindex
RawResponse(command, data) ==
    [id |-> \h580 + s_node,
     data |-> <<command, s_request[1].data[2], s_request[1].data[3], s_request[1].data[4],
                data % 256, (data \div 256) % 256, (data \div 65536) % 256,
                data \div 16777216>>,
     rtr |-> FALSE]

\* C2: an InitiateDownload request to the node is answered with abort
\* ObjectDoesNotExist (0x06020000) if the object is not in the dictionary,
\* with abort WriteReadOnlyError (0x06010002) if the entry is Const or
\* read-only whatever the size of the request, with abort WrongLength
\* (0x06070010) if the entry is writable and the size differs from the width
\* of the stored type, and with DownloadResponse otherwise; the aborts echo
\* index and subindex and carry the code little-endian.
C2_DownloadAnswer ==
    IsRequest(1) =>
        s_response =
            <<IF RequestedEntries = {} THEN RawResponse(\h80, \h06020000)
              ELSE IF RequestedEntry.storage = "Const" \/ RequestedEntry.privilege = "ReadOnly"
              THEN RawResponse(\h80, \h06010002)
              ELSE IF RequestedEntry.storage # "NoStorage"
                      /\ WidthOf(RequestedEntry.value) # RequestSize(s_request[1])
              THEN RawResponse(\h80, \h06070010)
              ELSE RawResponse(\h60, 0)>>

\* a one-byte InitiateDownload to the Const u32 entry 0x1000,01 was answered
\* with abort WrongLength
C2_Witness ==
    /\ IsRequest(1)
    /\ RequestedEntries # {}
    /\ RequestedEntry.storage = "Const"
    /\ s_response = <<RawResponse(\h80, \h06070010)>>

\* an InitiateUpload request of a readable numeric entry
IsNumericUpload ==
    /\ IsRequest(2)
    /\ RequestedEntries # {}
    /\ RequestedEntry.storage # "NoStorage"
    /\ RequestedEntry.privilege # "WriteOnly"
    /\ WidthOf(RequestedEntry.value) \in {1, 2, 4}

\* C3: an InitiateUpload request of a readable numeric entry of width w in
\* {1, 2, 4} is answered from 0x580 + node_id with command byte 0x4F, 0x4B,
\* 0x43 (n = 4 - w), index and subindex echoed, the value little-endian and
\* zero-padded.
C3_UploadResponse ==
    IsNumericUpload =>
        s_response =
            <<RawResponse(\h43 + 4 * (4 - WidthOf(RequestedEntry.value)),
                          RequestedEntry.value.v)>>

\* an InitiateUpload of a numeric entry was answered with a frame that
\* carries the value under a command byte with the bits of InitiateDownload
C3_Witness ==
    /\ IsNumericUpload
    /\ s_response =
           <<RawResponse(\h23 + 4 * (4 - WidthOf(RequestedEntry.value)),
                         RequestedEntry.value.v)>>

\* an expedited InitiateDownload to a writable numeric entry whose width is
\* the size of the request
IsFittingDownload ==
    /\ IsRequest(1)
    /\ RequestedEntries # {}
    /\ RequestedEntry.storage \in {"Variable", "Persistent"}
    /\ RequestedEntry.privilege # "ReadOnly"
    /\ WidthOf(RequestedEntry.value) \in {1, 2, 4}
    /\ WidthOf(RequestedEntry.value) = RequestSize(s_request[1])

\* the value v such a request carries, in the type of the entry
DownloadedValue ==
    cast_indexed_payload_to_value_variant(
        RequestedEntry.value, CANOpenFrame_try_from(s_request[1]).frame.payload).value

-----------------------------------------------------------------------------
(* SpecClient: an application calls read_object and write_object of an     *)
(* SdoClient, one call after the other; the peer and the rest of the bus   *)
(* deliver frames, the stream may end or fail, time passes.                *)

TimeoutTicks == 2

ClientNodes == {5}
ClientObjects == {<<\h2000, 1>>, <<\h2001, 1>>}
DstLengths == {2, 4, 5, 9}
WriteSlices == {<<\h44>>, <<\h44, \h55, \h66, \h77>>, <<1, 2, 3, 4, 5>>}
WriteOutcomes == {"Ok", "SocketInstanciatingError", "SocketWriteError"}
\* what the caller's buffer holds before the call
Untouched == \hEE

SdoTxFrame(node, command, index, subindex, bytes) ==
    [id |-> \h580 + node,
     data |-> <<command, lo16(index), hi16(index), subindex>> \o bytes, rtr |-> FALSE]

\* the raw frames the client may read while it awaits a response
ClientInbound(node) ==
    {SdoTxFrame(node, \h80, \h2000, 1, <<2, 0, 1, 6>>),
     SdoTxFrame(node, \h80, \h2000, 1, <<\h11, \h22, \h33, \h44>>),
     SdoTxFrame(node, \h4F, \h2000, 1, <<\h44, 0, 0, 0>>),
     SdoTxFrame(node, \h4B, \h2000, 1, <<\h44, \h55, 0, 0>>),
     SdoTxFrame(node, \h43, \h2000, 1, <<\h44, \h55, \h66, \h77>>),
     SdoTxFrame(node, \h42, \h2000, 1, <<\h44, \h55, \h66, \h77>>),
     SdoTxFrame(node, \h41, \h2000, 1, <<9, 0, 0, 0>>),
     SdoTxFrame(node, \h41, \h2000, 1, <<3, 0, 0, 0>>),
     SdoTxFrame(node, \h41, \h2000, 1, <<5, 0, 0, 0>>),
     SdoTxFrame(node, \h60, \h2000, 1, <<0, 0, 0, 0>>),
     SdoTxFrame(node, \h00, \h2000, 1, <<100, 101, 102, 103>>),
     SdoTxFrame(node, \h10, \h2000, 1, <<100, 101, 102, 103>>),
     SdoTxFrame(node, \h80, \h2001, 1, <<2, 0, 1, 6>>),
     SdoTxFrame(node, \h43, \h2001, 1, <<\h44, \h55, \h66, \h77>>),
     SdoTxFrame(node, \h60, \h2001, 1, <<0, 0, 0, 0>>),
     SdoTxFrame(node, \h41, \h2001, 1, <<9, 0, 0, 0>>),
     SdoTxFrame(node, \h00, \h6261, \h63, <<100, 101, 102, 103>>),
     SdoTxFrame(node, \h0D, \h6261, 0, <<0, 0, 0, 0>>),
     SdoTxFrame(node, \hA0, \h2000, 1, <<0, 0, 0, 0>>),
     SdoTxFrame(node + 1, \h80, \h2000, 1, <<2, 0, 1, 6>>),
     [id |-> \h600 + node, data |-> <<\h40, 0, \h20, 1, 0, 0, 0, 0>>, rtr |-> FALSE],
     [id |-> \h180 + node, data |-> <<1, 2>>, rtr |-> FALSE],
     [id |-> \h580 + node, data |-> <<\h80, 0, \h20>>, rtr |-> FALSE],
     [id |-> \h680 + node, data |-> <<\h43, 0, \h20, 1, 0, 0, 0, 0>>, rtr |-> FALSE],
     [id |-> \h7FF, data |-> <<>>, rtr |-> FALSE]}

AwaitStates == {"await_init", "await_segment", "await_write"}

ClientIdle ==
    /\ cl_pc = "idle"
    /\ cl_node \in ClientNodes
    /\ cl_op = [kind |-> "none", index |-> 0, subindex |-> 0, bytes |-> <<>>]
    /\ cl_dst = <<>>
    /\ cl_result = <<>>
    /\ cl_len = 0
    /\ cl_bytes_already_read = 0
    /\ cl_toggle = FALSE
    /\ cl_elapsed = 0
    /\ cl_sent = <<>>
    /\ cl_last_rx = <<>>
    /\ cl_sent_after_rx = FALSE
    /\ cl_ended_by = ""
    /\ SocketRest

ClientInit == ClientIdle /\ CodecRest /\ ServerRest

\* the operation returns this Result
Returns(result, by) ==
    /\ cl_pc' = "done"
    /\ cl_result' = <<result>>
    /\ cl_ended_by' = by

\* write_frame of a request: it is written and the response awaited, or the
\* write fails and the operation returns the error
Writes(request, outcome, await) ==
    IF outcome = "Ok"
    THEN /\ cl_pc' = await
         /\ cl_result' = <<>>
         /\ cl_ended_by' = ""
         /\ cl_sent' = <<request>>
         /\ cl_sent_after_rx' = (cl_last_rx' # <<>>)
         /\ cl_elapsed' = 0
    ELSE /\ Returns(Err(outcome), "write")
         /\ UNCHANGED <<cl_sent, cl_sent_after_rx, cl_elapsed>>

\* read_object is called: read_indexed writes the upload request
StartReadObject ==
    /\ cl_pc \in {"idle", "done"}
    /\ \E o \in ClientObjects, n \in DstLengths, outcome \in WriteOutcomes :
           /\ cl_op' = [kind |-> "read", index |-> o[1], subindex |-> o[2], bytes |-> <<>>]
           /\ cl_dst' = [i \in 1..n |-> Untouched]
           /\ cl_last_rx' = <<>>
           /\ Writes(read_indexed_request(cl_node, o[1], o[2]), outcome, "await_init")
    /\ cl_len' = 0
    /\ cl_bytes_already_read' = 0
    /\ cl_toggle' = FALSE
    /\ UNCHANGED cl_node

StartRead == StartReadObject /\ UNCHANGED <<codecVars, serverVars, socketVars>>

\* write_object is called: it writes the download request, or download panics
StartWriteObject ==
    /\ cl_pc \in {"idle", "done"}
    /\ \E o \in ClientObjects, bytes \in WriteSlices, outcome \in WriteOutcomes :
           /\ cl_op' = [kind |-> "write", index |-> o[1], subindex |-> o[2], bytes |-> bytes]
           /\ cl_last_rx' = <<>>
           /\ IF Len(bytes) > 4
              THEN /\ cl_pc' = "panicked"
                   /\ cl_result' = <<>>
                   /\ cl_ended_by' = ""
                   /\ UNCHANGED <<cl_sent, cl_sent_after_rx, cl_elapsed>>
              ELSE Writes(write_object_request(cl_node, o[1], o[2], bytes), outcome,
                          "await_write")
    /\ cl_dst' = <<>>
    /\ cl_len' = 0
    /\ cl_bytes_already_read' = 0
    /\ cl_toggle' = FALSE
    /\ UNCHANGED cl_node

StartWrite == StartWriteObject /\ UNCHANGED <<codecVars, serverVars, socketVars>>

\* read_indexed reads a frame: one turn of its loop, and after a break the
\* rest of read_indexed and read_object up to the segment loop
RecvInitFrame(raw) ==
    LET f == CANOpenFrame_try_from(raw)
        r == read_indexed_frame(cl_node, cl_op.index, cl_op.subindex, cl_dst, f.frame)
    IN  /\ cl_pc = "await_init"
        /\ cl_last_rx' = <<raw>>
        /\ IF ~f.ok
           THEN Returns(Err(f.err), "frame") /\ UNCHANGED <<cl_dst, cl_len>>
           ELSE IF r.step = "continue"
           THEN UNCHANGED <<cl_pc, cl_result, cl_ended_by, cl_dst, cl_len>>
           ELSE IF r.step = "return"
           THEN Returns(r.result, "frame") /\ UNCHANGED <<cl_dst, cl_len>>
           ELSE /\ cl_dst' = r.dst
                /\ cl_len' = r.result.n
                /\ cl_ended_by' = "frame"
                /\ IF r.result.n > 4
                   THEN cl_pc' = "segment_loop" /\ cl_result' = <<>>
                   ELSE cl_pc' = "done" /\ cl_result' = <<Ok(r.result.n)>>
        /\ cl_sent_after_rx' = FALSE
        /\ UNCHANGED <<cl_node, cl_op, cl_bytes_already_read, cl_toggle, cl_elapsed, cl_sent>>

RecvInit ==
    /\ \E raw \in ClientInbound(cl_node) : RecvInitFrame(raw)
    /\ UNCHANGED <<codecVars, serverVars, socketVars>>

\* the head of the segment loop of read_object: read_segment writes the next
\* segment request, or the loop is left and read_object returns Ok(len)
ReadSegmentLoop ==
    /\ cl_pc = "segment_loop"
    /\ UNCHANGED cl_last_rx
    /\ IF cl_bytes_already_read < cl_len
       THEN \E outcome \in WriteOutcomes :
                Writes(read_segment_request(cl_node, cl_toggle), outcome, "await_segment")
       ELSE /\ Returns(Ok(cl_len), cl_ended_by)
            /\ UNCHANGED <<cl_sent, cl_sent_after_rx, cl_elapsed>>
    /\ UNCHANGED <<cl_node, cl_op, cl_dst, cl_len, cl_bytes_already_read, cl_toggle,
                   codecVars, serverVars, socketVars>>

\* read_segment reads a frame: one turn of its loop, and after a break the
\* rest of the turn of the segment loop
RecvSegment ==
    /\ cl_pc = "await_segment"
    /\ \E raw \in ClientInbound(cl_node) :
           LET f == CANOpenFrame_try_from(raw)
               r == read_segment_frame(cl_node, cl_op.index, cl_op.subindex,
                        SubSeq(cl_dst, cl_bytes_already_read + 1, Len(cl_dst)), f.frame)
           IN  /\ cl_last_rx' = <<raw>>
               /\ IF ~f.ok
                  THEN /\ Returns(Err(f.err), "frame")
                       /\ UNCHANGED <<cl_dst, cl_bytes_already_read, cl_toggle>>
                  ELSE IF r.step = "continue"
                  THEN UNCHANGED <<cl_pc, cl_result, cl_ended_by, cl_dst,
                                   cl_bytes_already_read, cl_toggle>>
                  ELSE IF r.step = "return"
                  THEN /\ Returns(r.result, "frame")
                       /\ UNCHANGED <<cl_dst, cl_bytes_already_read, cl_toggle>>
                  ELSE IF r.step = "panic"
                  THEN /\ cl_pc' = "panicked"
                       /\ cl_ended_by' = "frame"
                       /\ UNCHANGED <<cl_result, cl_dst, cl_bytes_already_read, cl_toggle>>
                  ELSE /\ cl_dst' = SubSeq(cl_dst, 1, cl_bytes_already_read) \o r.dst
                       /\ cl_bytes_already_read' = cl_bytes_already_read + r.result.n
                       /\ cl_toggle' = ~cl_toggle
                       /\ cl_pc' = "segment_loop"
                       /\ cl_ended_by' = "frame"
                       /\ UNCHANGED cl_result
    /\ cl_sent_after_rx' = FALSE
    /\ UNCHANGED <<cl_node, cl_op, cl_len, cl_elapsed, cl_sent, codecVars, serverVars,
                   socketVars>>

\* write_object reads a frame: one turn of its loop
RecvWriteFrame(raw) ==
    LET f == CANOpenFrame_try_from(raw)
        r == write_object_frame(cl_node, cl_op.index, cl_op.subindex, f.frame)
    IN  /\ cl_pc = "await_write"
        /\ cl_last_rx' = <<raw>>
        /\ IF ~f.ok
           THEN Returns(Err(f.err), "frame")
           ELSE IF r.step = "continue"
           THEN UNCHANGED <<cl_pc, cl_result, cl_ended_by>>
           ELSE Returns(r.result, "frame")
        /\ cl_sent_after_rx' = FALSE
        /\ UNCHANGED <<cl_node, cl_op, cl_dst, cl_len, cl_bytes_already_read, cl_toggle,
                       cl_elapsed, cl_sent>>

RecvWrite ==
    /\ \E raw \in ClientInbound(cl_node) : RecvWriteFrame(raw)
    /\ UNCHANGED <<codecVars, serverVars, socketVars>>

\* can_socket.next() yields None or Some(Err(_)): the `while let` loop is
\* left and the worker returns Ok(len) with len = 0, Ok(()) in write_object
StreamEnd ==
    /\ cl_pc \in AwaitStates
    /\ IF cl_pc = "await_segment"
       THEN /\ cl_pc' = "segment_loop"
            /\ cl_toggle' = ~cl_toggle
            /\ cl_ended_by' = "stream"
            /\ UNCHANGED cl_result
       ELSE /\ Returns(Ok(0), "stream")
            /\ UNCHANGED cl_toggle
    /\ UNCHANGED <<cl_node, cl_op, cl_dst, cl_len, cl_bytes_already_read, cl_elapsed,
                   cl_sent, cl_last_rx, cl_sent_after_rx, codecVars, serverVars,
                   socketVars>>

\* time passes while the worker awaits a frame
Tick ==
    /\ cl_pc \in AwaitStates
    /\ cl_elapsed < TimeoutTicks
    /\ cl_elapsed' = cl_elapsed + 1
    /\ UNCHANGED <<cl_pc, cl_node, cl_op, cl_dst, cl_result, cl_len, cl_bytes_already_read,
                   cl_toggle, cl_sent, cl_last_rx, cl_sent_after_rx, cl_ended_by,
                   codecVars, serverVars, socketVars>>

\* the timeout branch of select!: client_server_communication_timeout has
\* elapsed
Timeout ==
    /\ cl_pc \in AwaitStates
    /\ cl_elapsed = TimeoutTicks
    /\ Returns(Err("SdoProtocolTimedOut"), "timeout")
    /\ UNCHANGED <<cl_node, cl_op, cl_dst, cl_len, cl_bytes_already_read, cl_toggle,
                   cl_elapsed, cl_sent, cl_last_rx, cl_sent_after_rx, codecVars, serverVars,
                   socketVars>>

ClientNext ==
    \/ StartRead
    \/ StartWrite
    \/ RecvInit
    \/ ReadSegmentLoop
    \/ RecvSegment
    \/ RecvWrite
    \/ StreamEnd
    \/ Tick
    \/ Timeout

SpecClient == ClientInit /\ [][ClientNext]_vars

\* the executor runs the client task when it can run, time passes, and a
\* timer that has elapsed fires
SpecClientLive ==
    /\ ClientInit
    /\ [][ClientNext]_vars
    /\ WF_vars(ReadSegmentLoop)
    /\ WF_vars(Tick)
    /\ WF_vars(Timeout)

-----------------------------------------------------------------------------
(* SpecSystem: the client's read_object against the SDO server of a node   *)
(* over one bus.  The request the client wrote is the frame the server     *)
(* reads, and the frame the server wrote is the frame read_indexed reads.  *)
(* A response the client has not read when its operation returns is        *)
(* dropped.  No response of the server makes read_object enter its segment *)
(* loop (process_segmented answers a string with an abort, and             *)
(* send_expedited_object_value is expedited), so the segment loop has no   *)
(* step here.                                                              *)

SystemNodes == {5, 6}

SystemStrings ==
    {<<97, 98, 99>>, <<97, 98, 99, 100, 101, 102, 103>>,
     <<97, 98, 99, 100, 101, 102, 103, 104, 105>>}

\* dictionaries with a Const string at 0x2000,01 and a Const u16 at 0x2001,01
SystemDictionaries ==
    {custom_entry(custom_entry(ObjectDictionaryBuilder_new(\h0FFF0192, \h0000002A),
                               const_object(\h2000, 1, S(str))).objects,
                  const_object(\h2001, 1, U16(\h5544))).objects
         : str \in SystemStrings}

SystemInit ==
    /\ ClientIdle
    /\ s_phase = "serving"
    /\ s_node \in SystemNodes
    /\ od \in SystemDictionaries
    /\ s_request = <<>>
    /\ s_response = <<>>
    /\ s_od_before = <<>>
    /\ s_session = SdoSession_default
    /\ CodecRest

\* read_object is called; a request written is on the bus, unread
SystemReadObject ==
    /\ StartReadObject
    /\ s_request' = <<>>
    /\ s_response' = <<>>
    /\ UNCHANGED <<s_phase, s_node, od, s_od_before, s_session, codecVars, socketVars>>

\* the server reads the client's request: one turn of its serving loop
SystemServe ==
    /\ s_phase = "serving"
    /\ cl_pc \in AwaitStates
    /\ cl_sent # <<>>
    /\ s_request = <<>>
    /\ ServeFrame(cl_sent[1])
    /\ UNCHANGED <<codecVars, clientVars>>

\* read_indexed reads the server's response
SystemRecvInit ==
    /\ s_response # <<>>
    /\ cl_last_rx = <<>>
    /\ RecvInitFrame(s_response[1])
    /\ UNCHANGED <<codecVars, serverVars, socketVars>>

SystemNext ==
    \/ SystemReadObject
    \/ SystemServe
    \/ SystemRecvInit
    \/ Tick
    \/ Timeout

SpecSystem == SystemInit /\ [][SystemNext]_vars

-----------------------------------------------------------------------------
(* SpecSocket: read_object and write_object of one SdoClient, called one   *)
(* after the other, against the SDO server of a node.  The SdoClient keeps *)
(* its socket from call to call: a frame the server wrote stays queued on  *)
(* it until an operation reads it.  The server reads the requests in the   *)
(* order they were written, at its own pace.                               *)

MaxCalls == 2

Queued(frame, call) == [frame |-> frame, call |-> call]

\* an operation is called; a request it wrote is queued for the server
SocketCalled ==
    /\ cl_calls < MaxCalls
    /\ cl_calls' = cl_calls + 1
    /\ cl_taken' = <<>>
    /\ cl_requests' = IF cl_pc' \in AwaitStates
                      THEN Append(cl_requests, Queued(cl_sent'[1], cl_calls'))
                      ELSE cl_requests
    /\ UNCHANGED <<cl_socket, serverVars, codecVars>>

SocketReadObject == StartReadObject /\ SocketCalled

SocketWriteObject == StartWriteObject /\ SocketCalled

\* the server reads the oldest request: one turn of its serving loop; what it
\* writes is queued on the client's socket
SocketServe ==
    /\ s_phase = "serving"
    /\ cl_requests # <<>>
    /\ ServeFrame(Head(cl_requests).frame)
    /\ cl_requests' = Tail(cl_requests)
    /\ cl_socket' = cl_socket \o [i \in 1..Len(s_response') |->
                                      Queued(s_response'[i], Head(cl_requests).call)]
    /\ UNCHANGED <<cl_pc, cl_node, cl_op, cl_dst, cl_result, cl_len, cl_bytes_already_read,
                   cl_toggle, cl_elapsed, cl_sent, cl_last_rx, cl_sent_after_rx, cl_ended_by,
                   cl_calls, cl_taken, codecVars>>

\* can_socket.next() yields the oldest queued frame
SocketNext ==
    /\ cl_socket # <<>>
    /\ cl_taken' = <<Head(cl_socket)>>
    /\ cl_socket' = Tail(cl_socket)
    /\ UNCHANGED <<cl_calls, cl_requests, serverVars, codecVars>>

\* read_indexed reads a frame from its socket
SocketRecvInit == SocketNext /\ RecvInitFrame(Head(cl_socket).frame)

\* write_object reads a frame from its socket
SocketRecvWrite == SocketNext /\ RecvWriteFrame(Head(cl_socket).frame)

SocketSystemNext ==
    \/ SocketReadObject
    \/ SocketWriteObject
    \/ SocketServe
    \/ SocketRecvInit
    \/ SocketRecvWrite
    \/ Tick
    \/ Timeout

SpecSocket == SystemInit /\ [][SocketSystemNext]_vars

\* what the properties of the client read off the raw frames: a frame of
\* the peer's SdoTx COB-ID that carries the request's index and subindex
MatchesRequest(raw) ==
    /\ raw.id = \h580 + cl_node
    /\ Len(raw.data) = 8
    /\ raw.data[2] + 256 * raw.data[3] = cl_op.index
    /\ raw.data[4] = cl_op.subindex

\* the last frame read is an Abort frame (scs 4) that matches the request
AbortReceived ==
    /\ cl_last_rx # <<>>
    /\ MatchesRequest(cl_last_rx[1])
    /\ cl_last_rx[1].data[1] \div 32 = 4

\* the Err a client operation returns for the abort code of that frame
AbortReceivedError ==
    SdoAbortCodeError(SDOAbortCode_from(
        le_u32(cl_last_rx[1].data[5], cl_last_rx[1].data[6],
               cl_last_rx[1].data[7], cl_last_rx[1].data[8])))

\* read_object returned Ok
ReadReturnedOk ==
    /\ cl_op.kind = "read"
    /\ cl_pc = "done"
    /\ cl_result[1].ok

\* the response that ended read_object is expedited with its size indicated
ExpeditedSizedResponse ==
    /\ cl_ended_by = "frame"
    /\ cl_len <= 4
    /\ cl_last_rx[1].data[1] % 4 = 3

\* C5: read_object returns Ok(n) only if n <= dst.len() and exactly the
\* first n bytes of dst hold the data; for an expedited response of size s
\* it writes the s data bytes into dst[0..s] and returns s, whatever the
\* length of dst.
C5_ReadLength ==
    ReadReturnedOk =>
        /\ cl_result[1].n <= Len(cl_dst)
        /\ \A i \in 1..Len(cl_dst) : i > cl_result[1].n => cl_dst[i] = Untouched
        /\ ExpeditedSizedResponse =>
               /\ cl_result[1].n = 4 - ((cl_last_rx[1].data[1] \div 4) % 4)
               /\ \A i \in 1..cl_result[1].n : cl_dst[i] = cl_last_rx[1].data[4 + i]

\* read_object returned Ok(4) for a buffer of two bytes
C5_Witness ==
    /\ ReadReturnedOk
    /\ cl_result[1].n = 4
    /\ Len(cl_dst) = 2

\* C6: if the matching response to write_object's request is an Abort,
\* write_object returns Err(SdoAbortCode) with the abort code of the frame;
\* it returns Ok(()) only if the matching response is a DownloadResponse
\* (scs 3).
C6_WriteAbort ==
    (cl_op.kind = "write" /\ cl_pc = "done") =>
        /\ (cl_ended_by = "frame" /\ AbortReceived) => cl_result = <<AbortReceivedError>>
        /\ cl_result[1].ok =>
               /\ cl_ended_by = "frame"
               /\ MatchesRequest(cl_last_rx[1])
               /\ cl_last_rx[1].data[1] \div 32 = 3

\* write_object returned Ok(()) on an Abort frame
C6_Witness ==
    /\ cl_op.kind = "write"
    /\ cl_pc = "done"
    /\ AbortReceived
    /\ cl_result = <<Ok(0)>>

\* C7: in read_object an Abort frame of the peer with the request's index
\* and subindex, read in answer to the initiate request or in the segment
\* loop, ends the operation with Err(SdoAbortCode) of the code in the frame's
\* data, and no further request is written.
C7_ReadAbort ==
    (cl_op.kind = "read" /\ AbortReceived) =>
        /\ cl_pc = "done"
        /\ cl_result = <<AbortReceivedError>>
        /\ ~cl_sent_after_rx

\* an Abort frame was read in the segment loop of read_object
C7_Witness ==
    /\ cl_op.kind = "read"
    /\ AbortReceived
    /\ cl_len > 4
    /\ cl_pc = "done"
    /\ cl_result[1].abort_code = AbortCode("WriteReadOnlyError")

\* the operation has returned and its last exchange saw no matching response
ReturnedWithoutResponse ==
    /\ cl_pc = "done"
    /\ cl_ended_by # "write"
    /\ ~(cl_ended_by = "frame" /\ MatchesRequest(cl_last_rx[1]))

\* C8: if no matching response arrives within the timeout after a request
\* was written, the operation returns SdoProtocolTimedOut and has written no
\* abort frame and no further request.
C8_Timeout ==
    ReturnedWithoutResponse =>
        /\ cl_result = <<Err("SdoProtocolTimedOut")>>
        /\ cl_sent[1].data[1] \div 32 # 4
        /\ cl_elapsed = TimeoutTicks

\* the timeout branch was taken after frames that do not match were read
C8_Witness ==
    /\ ReturnedWithoutResponse
    /\ cl_ended_by = "timeout"
    /\ cl_last_rx # <<>>
    /\ cl_result = <<Err("SdoProtocolTimedOut")>>

\* C9: every read_object and write_object call eventually returns, whatever
\* frames the peer sends.
C9_Returns ==
    (cl_pc \in AwaitStates \cup {"segment_loop"}) ~> (cl_pc \in {"done", "panicked"})

\* the segment loop is entered again after an exchange that read no data
C9_Witness ==
    /\ cl_pc = "segment_loop"
    /\ cl_toggle
    /\ cl_bytes_already_read = 0

\* C10: while an operation awaits its response, a frame that does not match
\* (peer node_id, SdoTx, index, subindex) is skipped and does not change the
\* operation's result; so for frames of other nodes, of other types, and of
\* a COB-ID that is no CANopen id.
C10_Skipped ==
    /\ cl_ended_by = "frame" => MatchesRequest(cl_last_rx[1])
    /\ (cl_pc \in AwaitStates) => cl_result = <<>>

\* a frame with a COB-ID that is no CANopen id ended the operation
C10_Witness ==
    /\ cl_pc = "done"
    /\ cl_ended_by = "frame"
    /\ cl_last_rx[1].id = \h7FF
    /\ cl_result = <<Err("InvalidCobId")>>

\* the last frame read matches the request and is a segmented initiate
\* response (scs 2, expedited bit clear); its data is the announced total
SegmentedInitiateReceived ==
    /\ cl_op.kind = "read"
    /\ cl_last_rx # <<>>
    /\ MatchesRequest(cl_last_rx[1])
    /\ cl_last_rx[1].data[1] \div 32 = 2
    /\ (cl_last_rx[1].data[1] \div 2) % 2 = 0

AnnouncedTotal ==
    le_u32(cl_last_rx[1].data[5], cl_last_rx[1].data[6],
           cl_last_rx[1].data[7], cl_last_rx[1].data[8])

\* the last frame written is a segment request (ccs 3), and the last frame
\* read came after it from the peer's SdoTx COB-ID as a segment (scs 0)
SegmentReceived ==
    /\ cl_op.kind = "read"
    /\ cl_sent # <<>>
    /\ cl_sent[1].data[1] \div 32 = 3
    /\ ~cl_sent_after_rx
    /\ cl_last_rx # <<>>
    /\ cl_last_rx[1].id = \h580 + cl_node
    /\ Len(cl_last_rx[1].data) = 8
    /\ cl_last_rx[1].data[1] \div 32 = 0

\* the data bytes that segment carries: 7 - length_of_empty_bytes
SegmentBytes ==
    IF cl_last_rx[1].data[1] % 2 = 1 THEN 7 - ((cl_last_rx[1].data[1] \div 2) % 8) ELSE 7

\* C11: when the initiate response is segmented and announces T bytes with
\* 1 <= T <= dst.len(), read_object requests segments and copies the 7 -
\* length_of_empty_bytes bytes of every segment response into dst, and
\* returns Ok only when the bytes copied are at least T; so for T <= 4 too.
C11_SegmentedRead ==
    /\ (ReadReturnedOk /\ cl_len >= 1
            /\ (cl_len > 4 \/ (cl_ended_by = "frame" /\ SegmentedInitiateReceived)))
           => cl_bytes_already_read >= cl_len
    /\ SegmentReceived =>
           /\ cl_bytes_already_read >= SegmentBytes
           /\ \A i \in 1..SegmentBytes :
                  cl_dst[cl_bytes_already_read - SegmentBytes + i] = cl_last_rx[1].data[1 + i]

\* read_object returned Ok(3) on a segmented initiate response that announces
\* three bytes, with no byte copied
C11_Witness ==
    /\ ReadReturnedOk
    /\ SegmentedInitiateReceived
    /\ cl_len = 3
    /\ cl_result[1].n = 3
    /\ cl_bytes_already_read = 0
    /\ \A i \in 1..Len(cl_dst) : cl_dst[i] = Untouched

\* C12: if the segmented initiate response announces more than dst.len()
\* bytes, read_object returns StringIsTooLong{max_length = dst.len(),
\* given_length = the announced total}, writes nothing into dst and sends no
\* segment request: the segment loop is never entered with such a total.
C12_TooLong ==
    /\ (SegmentedInitiateReceived /\ cl_len = 0 /\ AnnouncedTotal > Len(cl_dst)) =>
           /\ cl_pc = "done"
           /\ cl_result = <<StringIsTooLong(Len(cl_dst), AnnouncedTotal)>>
           /\ \A i \in 1..Len(cl_dst) : cl_dst[i] = Untouched
           /\ ~cl_sent_after_rx
    /\ (cl_op.kind = "read" /\ cl_len > 4) => cl_len <= Len(cl_dst)

\* a response that announces nine bytes was read for a buffer of four
C12_Witness ==
    /\ SegmentedInitiateReceived
    /\ AnnouncedTotal = 9
    /\ Len(cl_dst) = 4
    /\ cl_pc = "done"
    /\ cl_result[1].err = "StringIsTooLong"

\* C17: when the stream ends or yields a read error while the client waits
\* for its response, the operation fails: write_object does not return
\* Ok(()) and read_object does not return Ok(n).
C17_StreamEnd ==
    (cl_pc = "done" /\ cl_ended_by = "stream") => ~cl_result[1].ok

\* write_object returned Ok(()) when the stream ended, no frame read
C17_Witness ==
    /\ cl_pc = "done"
    /\ cl_ended_by = "stream"
    /\ cl_op.kind = "write"
    /\ cl_last_rx = <<>>
    /\ cl_result = <<Ok(0)>>

\* an InitiateUpload request of a readable String entry
IsStringUpload ==
    /\ IsRequest(2)
    /\ RequestedEntries # {}
    /\ RequestedEntry.storage # "NoStorage"
    /\ RequestedEntry.privilege # "WriteOnly"
    /\ RequestedEntry.value.tag = "S"

\* C14: an InitiateUpload request of a readable String entry of length L is
\* answered with a segmented initiate response (command byte 0x41, data = L
\* little-endian, index and subindex echoed), and the server records a
\* session for the object.
C14_StringUpload ==
    IsStringUpload =>
        /\ s_response = <<RawResponse(\h41, Len(RequestedEntry.value.s))>>
        /\ s_session # SdoSession_default
        /\ s_session.object_index = RequestIndex(s_request[1])
        /\ s_session.object_subindex = RequestSubindex(s_request[1])

\* an InitiateUpload of the string entry 0x1008,01 was answered with abort
\* ObjectDoesNotExist, the server holding no session
C14_Witness ==
    /\ IsStringUpload
    /\ RequestIndex(s_request[1]) = \h1008
    /\ s_response = <<RawResponse(\h80, \h06020000)>>
    /\ s_session = SdoSession_default

\* an 8-byte SdoRx frame to the node whose client command specifier is
\* DownloadSegment, BlockUpload, BlockDownload or Unspecified
IsUnsupportedRequest ==
    /\ s_request # <<>>
    /\ s_request[1].id = \h600 + s_node
    /\ Len(s_request[1].data) = 8
    /\ ClientCommandSpecifier_from(s_request[1].data[1])
           \in {"DownloadSegment", "BlockUpload", "BlockDownload", "Unspecified"}

\* C15: every 8-byte SdoRx frame to the node whose ccs is DownloadSegment,
\* BlockUpload, BlockDownload or Unspecified is answered with abort
\* UnsupportedAccess (0x06010000) on the frame's index and subindex.
C15_Unsupported ==
    IsUnsupportedRequest => s_response = <<RawResponse(\h80, \h06010000)>>

\* a BlockDownload request was read by a serving node and nothing was written
C15_Witness ==
    /\ IsUnsupportedRequest
    /\ ClientCommandSpecifier_from(s_request[1].data[1]) = "BlockDownload"
    /\ s_phase = "serving"
    /\ s_response = <<>>

\* the last frame read is of another node, or its function code is not SdoRx
IsForeignFrame ==
    /\ s_request # <<>>
    /\ \/ s_request[1].id % 128 # s_node
       \/ s_request[1].id \div 128 # FrameTypeCode.SdoRx

\* C16: for an inbound frame whose node id is not the server's, or whose
\* function code is not SdoRx, the server sends no frame and leaves every
\* value of the object dictionary as it was.
C16_Foreign ==
    IsForeignFrame =>
        /\ s_response = <<>>
        /\ od = s_od_before
        /\ s_phase = "serving"

\* an SdoTx frame of the node itself was read and left unanswered
C16_Witness ==
    /\ IsForeignFrame
    /\ s_request[1].id = \h580 + s_node
    /\ Len(s_request[1].data) = 8
    /\ s_response = <<>>
    /\ od = s_od_before

\* the entry read_object addresses, as get_object_value finds it in the
\* dictionary of the server
ReadEntry == get_object_value(od, cl_op.index, cl_op.subindex)

\* read_object of a readable String entry that fits into dst has returned
\* after a frame of the server
StringReadDone ==
    /\ cl_op.kind = "read"
    /\ cl_pc = "done"
    /\ cl_ended_by = "frame"
    /\ s_response # <<>>
    /\ cl_last_rx = s_response
    /\ ReadEntry.ok
    /\ ReadEntry.value.tag = "S"
    /\ Len(ReadEntry.value.s) <= Len(cl_dst)

\* C13: read_object against the SDO server of a node, for a readable String
\* entry of length L, completes with Ok(L) and dst[0..L] equal to the bytes
\* of the string; the server has cleared its session.
C13_StringRead ==
    StringReadDone =>
        /\ cl_result = <<Ok(Len(ReadEntry.value.s))>>
        /\ \A i \in 1..Len(ReadEntry.value.s) : cl_dst[i] = ReadEntry.value.s[i]
        /\ s_session = SdoSession_default

\* read_object of the nine-byte string returned the server's abort
\* ObjectDoesNotExist, dst untouched
C13_Witness ==
    /\ StringReadDone
    /\ Len(ReadEntry.value.s) = 9
    /\ cl_result = <<SdoAbortCodeError(AbortCode("ObjectDoesNotExist"))>>
    /\ \A i \in 1..Len(cl_dst) : cl_dst[i] = Untouched

\* the raw CAN frame of the frame the last build() returned
BuiltRaw == CANOpenFrame_into(b_frame[1])

\* the command byte and the 32-bit data the with-index setters are to give:
\* 0x23 + 4 * (4 - w) for an expedited download of w bytes, 0x43 + 4 * (4 - w)
\* for an expedited upload response, the value truncated to w bytes
ExpeditedCommand(base, width, value) ==
    [command |-> base + 4 * (4 - width), data |-> value % (256 ^ width)]

FourByteCommand(base, value) == [command |-> base, data |-> value]

WithIndexExpected ==
    CASE b_call.method = "download_one_byte" -> ExpeditedCommand(\h23, 1, b_call.value)
      [] b_call.method = "download_two_bytes" -> ExpeditedCommand(\h23, 2, b_call.value)
      [] b_call.method = "download_four_bytes" -> FourByteCommand(\h23, b_call.value)
      [] b_call.method = "download" /\ Len(b_call.bytes) < 4 ->
             ExpeditedCommand(\h23, Len(b_call.bytes), DataOfSlice(b_call.bytes))
      [] b_call.method = "download" -> FourByteCommand(\h23, DataOfSlice(b_call.bytes))
      [] b_call.method = "upload_request" -> FourByteCommand(\h40, 0)
      [] b_call.method = "download_response" -> FourByteCommand(\h60, 0)
      [] b_call.method = "upload_one_byte_expedited_response" ->
             ExpeditedCommand(\h43, 1, b_call.value)
      [] b_call.method = "upload_two_bytes_response_expedited_response" ->
             ExpeditedCommand(\h43, 2, b_call.value)
      [] b_call.method = "upload_three_bytes_expedited_response" ->
             ExpeditedCommand(\h43, 3, b_call.value)
      [] b_call.method = "upload_four_bytes_expedited_response" ->
             FourByteCommand(\h43, b_call.value)
      [] b_call.method = "upload_expedited_response" /\ Len(b_call.bytes) < 4 ->
             ExpeditedCommand(\h43, Len(b_call.bytes), DataOfSlice(b_call.bytes))
      [] b_call.method = "upload_expedited_response" ->
             FourByteCommand(\h43, DataOfSlice(b_call.bytes))
      [] b_call.method = "upload_segmented_response" -> FourByteCommand(\h41, b_call.value)
      [] b_call.method = "abort" ->
             FourByteCommand(\h80, IF b_call.code.name = "UnknownAbortCode" THEN b_call.code.x
                                   ELSE SDOAbortCodeTable[b_call.code.name])

\* a frame was built after a with-index setter (a slice of 1..4 bytes)
WithIndexBuilt ==
    /\ HasWithIndexBuilder
    /\ b_frame # <<>>
    /\ b_call # NoCall
    /\ b_call.method \in {"download", "upload_expedited_response"}
           => Len(b_call.bytes) \in 1..4

\* C18: the frame of a with-index builder serialises to the 8 bytes
\* [cmd, index low, index high, subindex, d0..d3] on COB-ID 0x600 + node of
\* sdo_request and 0x580 + node of sdo_response, with cmd 0x2F/0x2B/0x27/0x23
\* for an expedited download of 1/2/3/4 bytes, 0x40 for upload_request, 0x60
\* for download_response, 0x4F/0x4B/0x47/0x43 for an expedited upload
\* response with the value truncated to its width, 0x41 and data = total
\* for upload_segmented_response(total), 0x80 and data = the 32-bit value of
\* the code for abort(code).
C18_WithIndexBytes ==
    WithIndexBuilt =>
        BuiltRaw =
            [id |-> (IF b_builder[1].frame_type = "SdoRx" THEN \h600 ELSE \h580)
                        + b_builder[1].node_id,
             data |-> <<WithIndexExpected.command,
                        b_builder[1].index % 256, b_builder[1].index \div 256,
                        b_builder[1].subindex,
                        WithIndexExpected.data % 256,
                        (WithIndexExpected.data \div 256) % 256,
                        (WithIndexExpected.data \div 65536) % 256,
                        WithIndexExpected.data \div 16777216>>,
             rtr |-> FALSE]

\* abort(ReadWriteOnlyError) was built into a frame that carries 0x06010000
C18_Witness ==
    /\ WithIndexBuilt
    /\ b_call.method = "abort"
    /\ b_call.code = AbortCode("ReadWriteOnlyError")
    /\ SubSeq(BuiltRaw.data, 5, 8) = <<0, 0, 1, 6>>

\* a frame was built after upload_response(chunk) or download_request(chunk)
\* with a chunk of at most seven bytes
SegmentBuilt ==
    /\ HasWithoutIndexBuilder
    /\ b_frame # <<>>
    /\ b_call.method \in {"upload_response", "download_request"}
    /\ Len(b_call.bytes) <= 7

\* C19: without_index().upload_response(chunk) and .download_request(chunk)
\* give length_of_empty_bytes = 7 - len (None for seven bytes), the chunk
\* zero-padded to seven bytes, and the command byte cs bits | 0x10 if toggle
\* | ((7 - len) << 1) | 1 if len < 7; the cs bits of a server upload segment
\* and of a client download segment are 000.
C19_SegmentBytes ==
    SegmentBuilt =>
        /\ b_frame[1].payload.length_of_empty_bytes
               = IF Len(b_call.bytes) < 7 THEN <<7 - Len(b_call.bytes)>> ELSE <<>>
        /\ b_frame[1].payload.data
               = [i \in 1..7 |-> IF i <= Len(b_call.bytes) THEN b_call.bytes[i] ELSE 0]
        /\ BuiltRaw.data[1]
               = (IF b_frame[1].payload.toggle THEN 16 ELSE 0)
                 + (IF Len(b_call.bytes) < 7 THEN (7 - Len(b_call.bytes)) * 2 + 1 ELSE 0)
        /\ SubSeq(BuiltRaw.data, 2, 8) = b_frame[1].payload.data

\* the first build after upload_response of seven bytes gave command byte 0x20
C19_Witness ==
    /\ SegmentBuilt
    /\ b_call.method = "upload_response"
    /\ Len(b_call.bytes) = 7
    /\ b_builds = 1
    /\ BuiltRaw.data[1] = 32

\* C20: the k-th build() of one WithoutIndexFrameBuilder gives a frame with
\* toggle false for odd k and true for even k, whatever setters were called
\* on the builder between the builds.
C20_ToggleAlternates ==
    (HasWithoutIndexBuilder /\ b_frame # <<>>) =>
        b_frame[1].payload.toggle = (b_builds % 2 = 0)

\* the second build of a builder, after a setter, gave a frame with toggle
\* set
C20_Witness ==
    /\ HasWithoutIndexBuilder
    /\ b_builds = 2
    /\ b_call.method = "upload_response"
    /\ b_frame # <<>>
    /\ b_frame[1].payload.toggle

\* C21: every SDOAbortCode converted to u32 and back is the same code, and
\* every u32 that is no constant of the table becomes UnknownAbortCode(x),
\* which converts back to x.
C21_AbortCodeRoundTrip ==
    /\ f_call.fn = "SDOAbortCode::into" => f_result[2] = f_call.args[1]
    /\ (f_call.fn = "SDOAbortCode::from"
            /\ \A n \in DOMAIN SDOAbortCodeTable : SDOAbortCodeTable[n] # f_call.args[1])
           => /\ f_result[1] = UnknownAbortCode(f_call.args[1])
              /\ f_result[2] = f_call.args[1]

\* ReadWriteOnlyError became 0x06010000 and came back as UnsupportedAccess
C21_Witness ==
    /\ f_call = Call("SDOAbortCode::into", <<AbortCode("ReadWriteOnlyError")>>)
    /\ f_result = <<\h06010000, AbortCode("UnsupportedAccess")>>

\* a raw frame was decoded
Decoded == f_call.fn = "CANOpenFrame::try_from"
DecodedRaw == f_call.args[1]

\* C22: decoding a raw CAN frame succeeds exactly when its id is at most
\* 0x77F and the upper four bits of the id are the code of a FrameType; every
\* other id is rejected with InvalidCobId {cob_id = the raw id}.  On success
\* cob_id() of the frame is the raw id, node_id = id & 0x7F and the function
\* code is id >> 7.
C22_CobId ==
    Decoded =>
        /\ f_result[1].ok
               <=> /\ DecodedRaw.id <= \h77F
                   /\ \E t \in FrameTypes : FrameTypeCode[t] = DecodedRaw.id \div 128
        /\ ~f_result[1].ok =>
               /\ f_result[1].err = "InvalidCobId"
               /\ f_result[1].cob_id = DecodedRaw.id
        /\ f_result[1].ok =>
               /\ cob_id(f_result[1].frame) = DecodedRaw.id
               /\ f_result[1].frame.node_id = DecodedRaw.id % 128
               /\ FrameTypeCode[f_result[1].frame.frame_type] = DecodedRaw.id \div 128

\* the id 0x6FF, whose type bits are 0b1101, was rejected
C22_Witness ==
    /\ Decoded
    /\ DecodedRaw.id = \h6FF
    /\ ~f_result[1].ok
    /\ f_result[1].err = "InvalidCobId"
    /\ f_result[1].cob_id = \h6FF

\* C23: an 8-byte SdoRx frame decodes to SdoWithIndex when its client command
\* specifier is InitiateDownload, InitiateUpload or UploadSegment, and to
\* Unspecific otherwise; an SDO frame of fewer than 8 bytes and every frame
\* of another type decodes to Unspecific with length = the number of data
\* bytes and the data zero-padded; in a decoded SdoWithIndex the size is
\* NotSet when bit 0 of the command byte is clear, whatever bits 3..2 are,
\* and 4 - n bytes otherwise.
C23_Classification ==
    (Decoded /\ f_result[1].ok) =>
        LET raw == DecodedRaw
            frame == f_result[1].frame
            sdo == frame.frame_type \in {"SdoRx", "SdoTx"}
        IN  /\ (frame.frame_type = "SdoRx" /\ Len(raw.data) = 8) =>
                   frame.payload.kind =
                       IF raw.data[1] \div 32 \in {1, 2, 3} THEN "SdoWithIndex"
                       ELSE "Unspecific"
            /\ (~sdo \/ Len(raw.data) < 8) =>
                   /\ frame.payload.kind = "Unspecific"
                   /\ frame.payload.length = Len(raw.data)
                   /\ frame.payload.data
                          = [i \in 1..8 |-> IF i <= Len(raw.data) THEN raw.data[i] ELSE 0]
            /\ frame.payload.kind = "SdoWithIndex" =>
                   extract_length(frame.payload.size)
                       = IF raw.data[1] % 2 = 0 THEN 0 ELSE 4 - ((raw.data[1] \div 4) % 4)
            /\ (frame.payload.kind = "SdoWithIndex" /\ raw.data[1] % 2 = 0) =>
                   frame.payload.size = "NotSet"

\* command byte 0x2C (bits 3..2 set, bit 0 clear) on SdoRx decoded to
\* SdoWithIndex with size NotSet
C23_Witness ==
    /\ Decoded
    /\ DecodedRaw.id = \h601
    /\ Len(DecodedRaw.data) = 8
    /\ DecodedRaw.data[1] = \h2C
    /\ f_result[1].ok
    /\ f_result[1].frame.payload.kind = "SdoWithIndex"
    /\ f_result[1].frame.payload.size = "NotSet"

PdoCalled == f_call.fn = "CanOpenFrameBuilder::pdo"

CustomEntryCalled == f_call.fn = "ObjectDictionaryBuilder::custom_entry"
CustomEntryReturned == CustomEntryCalled /\ ~f_result[1].panic

\* is_ordered of the tests: the mapped indices strictly ascend
is_ordered(objects) ==
    \A i \in 1..Len(objects) - 1 : objects[i].mapped_index < objects[i + 1].mapped_index

\* C25: after ObjectDictionaryBuilder::new and after every custom_entry, in
\* whatever order the objects are inserted, the first number_of_objects slots
\* ascend strictly by mapped index, no (index, subindex) occurs twice, and
\* every object registered before is still there with its value, as is the
\* new one.
C25_Ordered ==
    /\ \A b \in BuilderInputs : is_ordered(b)
    /\ CustomEntryReturned =>
           /\ is_ordered(f_result[1].objects)
           /\ \A i, j \in 1..Len(f_result[1].objects) :
                  f_result[1].objects[i].mapped_index = f_result[1].objects[j].mapped_index
                      => i = j
           /\ \A i \in 1..Len(f_call.args[1]) :
                  \E j \in 1..Len(f_result[1].objects) :
                      f_result[1].objects[j] = f_call.args[1][i]
           /\ \E j \in 1..Len(f_result[1].objects) :
                  f_result[1].objects[j] = f_call.args[2]

\* an object below every registered one was inserted into a builder that held
\* five objects
C25_Witness ==
    /\ CustomEntryReturned
    /\ Len(f_call.args[1]) = 5
    /\ f_call.args[2].mapped_index = 0
    /\ f_result[1].objects[1] = f_call.args[2]

\* the object is registered in the builder
IsRegistered(objects, object) ==
    \E i \in 1..Len(objects) : objects[i].mapped_index = object.mapped_index

ArrayIndexCalled == f_call.fn = "ObjectDictionary::array_index"

\* the positions among the first number_of_objects slots that hold the key
PresentAt(dictionary, index, subindex) ==
    {i \in 0..dictionary.number_of_objects - 1 :
        dictionary.object[i + 1].mapped_index = map_index(index, subindex)}

\* C27: for every object dictionary whose first n slots (0 <= n <= 256)
\* ascend and every (index, subindex), array_index ends and returns the
\* position of the slot with this mapped index when one of the first n slots
\* holds it, and ObjectDoesNotExist {index, subindex} otherwise; a slot at or
\* behind n is never matched.
C27_Lookup ==
    /\ \A d \in DictionaryInputs :
           is_ordered(SubSeq(d.object, 1, d.number_of_objects))
    /\ ArrayIndexCalled =>
           LET present == PresentAt(f_call.args[1], f_call.args[2], f_call.args[3])
           IN  /\ present # {} => f_result[1].ok /\ f_result[1].i \in present
               /\ present = {} =>
                      /\ ~f_result[1].ok
                      /\ f_result[1].err = "ObjectDoesNotExist"
                      /\ f_result[1].index = f_call.args[2]
                      /\ f_result[1].subindex = f_call.args[3]
               /\ f_result[1].ok => f_result[1].i < f_call.args[1].number_of_objects

\* the object of index 2 sits in slot 1 of a dictionary of one object, and
\* the lookup of it returned ObjectDoesNotExist
C27_Witness ==
    /\ ArrayIndexCalled
    /\ f_call.args[1].number_of_objects = 1
    /\ f_call.args[1].object[2].mapped_index = map_index(f_call.args[2], f_call.args[3])
    /\ ~f_result[1].ok
    /\ f_result[1].err = "ObjectDoesNotExist"

BuildCalled == f_call.fn = "ObjectDictionaryBuilder::build"

\* the entry a setter call is to leave: Const, read-only
SetterEntry(call) ==
    [mapped_index |-> CASE call.setter = "device_name" -> \h100801
                        [] call.setter = "hardware_version" -> \h100901
                        [] call.setter = "software_version" -> \h100A01
                        [] call.setter = "product_identifier" -> \h101802
                        [] call.setter = "product_revision" -> \h101803
                        [] call.setter = "serial_number" -> \h101804,
     storage |-> "Const",
     value |-> IF call.s # <<>> THEN [tag |-> "S", v |-> 0, s |-> call.s]
               ELSE [tag |-> "U32", v |-> call.v, s |-> <<>>],
     privilege |-> "ReadOnly"]

\* the entries of new(device_type, vendor_id)
MandatoryEntries(device_type, vendor_id) ==
    {[mapped_index |-> \h100001, storage |-> "Const",
      value |-> [tag |-> "U32", v |-> device_type, s |-> <<>>], privilege |-> "ReadOnly"],
     [mapped_index |-> \h100101, storage |-> "Const",
      value |-> [tag |-> "U8", v |-> 0, s |-> <<>>], privilege |-> "ReadOnly"],
     [mapped_index |-> \h101801, storage |-> "Const",
      value |-> [tag |-> "U32", v |-> vendor_id, s |-> <<>>], privilege |-> "ReadOnly"]}

\* C28: new(device_type, vendor_id), any subset of the optional setters in
\* any order, and build() give a dictionary that contains exactly
\* 0x1000/01 = U32(device_type), 0x1001/01 = U8 error register,
\* 0x1018/01 = U32(vendor_id) and the entries of the setters called
\* (0x1008/01, 0x1009/01, 0x100A/01 strings; 0x1018/02, /03, /04 U32), all
\* Const and read-only; the registered objects ascend, so the dictionary is
\* the same for every order of the calls.
C28_Build ==
    BuildCalled =>
        LET d == f_result[1].dictionary
            calls == f_call.args[3]
            registered == {d.object[i] : i \in 1..d.number_of_objects}
        IN  /\ ~f_result[1].panic
            /\ d.number_of_objects = 3 + Len(calls)
            /\ registered = MandatoryEntries(f_call.args[1], f_call.args[2])
                            \cup {SetterEntry(calls[i]) : i \in 1..Len(calls)}
            /\ is_ordered(SubSeq(d.object, 1, d.number_of_objects))

\* the six setters were called, serial_number first and device_name last, and
\* the nine entries were built
C28_Witness ==
    /\ BuildCalled
    /\ Len(f_call.args[3]) = 6
    /\ f_call.args[3][1].setter = "serial_number"
    /\ f_call.args[3][6].setter = "device_name"
    /\ ~f_result[1].panic
    /\ f_result[1].dictionary.number_of_objects = 9
    /\ f_result[1].dictionary.object[3].mapped_index = \h100801

DownloadExpeditedCalled == f_call.fn = "ObjectDictionary::download_expedited"
UploadCalled == f_call.fn = "ObjectDictionary::upload"
SetObjectValueCalled == f_call.fn = "ObjectDictionary::set_object_value"

\* the objects the dictionary held under the key of the call before the call
CalledEntries ==
    {o \in {s_od_before[i] : i \in 1..Len(s_od_before)} :
        o.mapped_index = f_call.args[1] * 256 + f_call.args[2]}

\* C29: download_expedited on a ReadOnly object fails with WritingForbidden
\* and upload on a WriteOnly object with ReadAccessImpossible; both fail with
\* ObjectDoesNotExist for a key that is not registered.  In each of these
\* cases no stored value changes, and no handler and no hook is called.
C29_Rejected ==
    /\ DownloadExpeditedCalled /\ CalledEntries = {} =>
           /\ ~f_result[1].ok /\ f_result[1].err = "ObjectDoesNotExist"
           /\ ~f_result[1].panic /\ ~f_result[1].handled /\ ~f_result[1].hooked
           /\ od = s_od_before
    /\ DownloadExpeditedCalled /\ (\E o \in CalledEntries : o.privilege = "ReadOnly") =>
           /\ ~f_result[1].ok /\ f_result[1].err = "WritingForbidden"
           /\ ~f_result[1].panic /\ ~f_result[1].handled /\ ~f_result[1].hooked
           /\ od = s_od_before
    /\ UploadCalled /\ CalledEntries = {} =>
           /\ ~f_result[1].ok /\ f_result[1].err = "ObjectDoesNotExist"
           /\ od = s_od_before
    /\ UploadCalled /\ (\E o \in CalledEntries : o.privilege = "WriteOnly") =>
           /\ ~f_result[1].ok /\ f_result[1].err = "ReadAccessImpossible"
           /\ od = s_od_before

\* download_expedited of an I16 other than the stored one on the Const I16 of
\* 0x2006,01 was rejected with WritingForbidden
C29_Witness ==
    /\ DownloadExpeditedCalled
    /\ f_call.args[1] = \h2006
    /\ f_call.args[3] = I16(8)
    /\ \E o \in CalledEntries : o.privilege = "ReadOnly" /\ o.value = I16(7)
    /\ f_result[1].err = "WritingForbidden"
    /\ od = s_od_before

\* the tags of the values stored in a dictionary (a NoStorage object holds a
\* handler and no value)
StoredTags(objects) ==
    [i \in 1..Len(objects) |->
        IF objects[i].storage = "NoStorage" THEN "" ELSE objects[i].value.tag]

\* C30: over every sequence of set_object_value and download_expedited calls
\* the variant (U8 .. I32, F32, S) of the value an object stores never
\* changes: a call that hands over a value of another variant fails and
\* leaves the value as it was.
C30_TagKept ==
    s_od_before # <<>> =>
        /\ StoredTags(od) = StoredTags(s_od_before)
        /\ (SetObjectValueCalled \/ DownloadExpeditedCalled) =>
               \A o \in CalledEntries :
                   o.storage # "NoStorage" /\ o.value.tag # f_call.args[3].tag =>
                       /\ ~f_result[1].ok
                       /\ f_result[1].err # ""
                       /\ od = s_od_before

\* set_object_value of a U8 on the Variable string of 0x2004,01 failed with
\* InvalidNumberType
C30_Witness ==
    /\ SetObjectValueCalled
    /\ f_call.args[1] = \h2004
    /\ f_call.args[3].tag = "U8"
    /\ \E o \in CalledEntries : o.storage = "Variable" /\ o.value.tag = "S"
    /\ ~f_result[1].ok
    /\ f_result[1].err = "InvalidNumberType"
    /\ od = s_od_before

ConstructorCalled ==
    f_call.fn \in {"CanOpenObject::variable_object", "CanOpenObject::persistent_object"}

\* C31: variable_object and persistent_object panic on a string as initial
\* value and accept every numeric variant, so that every mutable entry is
\* numeric.
C31_Constructors ==
    ConstructorCalled =>
        /\ f_result[1].panic <=> f_call.args[3].tag = "S"
        /\ ~f_result[1].panic =>
               /\ f_result[1].object.value = f_call.args[3]
               /\ f_result[1].object.value.tag # "S"

\* variable_object panicked on a U8
C31_Witness ==
    /\ f_call.fn = "CanOpenObject::variable_object"
    /\ f_call.args[3].tag = "U8"
    /\ f_result[1].panic

ParseBufferAsCalled == f_call.fn = "parse_buffer_as"

\* the width in bytes of a type of cot
WidthOfType(value_type) ==
    CASE value_type \in {"U8", "I8"} -> 1
      [] value_type \in {"U16", "I16"} -> 2
      [] OTHER -> 4

\* the integers whose little-endian bytes are the buffer of the call
ParsedIntegers ==
    {v \in IntegerValues :
        v.tag = f_call.args[1] /\ to_little_endian_buffer(v) = f_call.args[2]}

\* the value of the little-endian bytes, unsigned and below 2^31
UnsignedOf(bytes) ==
    IF Len(bytes) = 1 THEN bytes[1]
    ELSE IF Len(bytes) = 2 THEN bytes[1] + 256 * bytes[2]
    ELSE bytes[1] + 256 * bytes[2] + 65536 * bytes[3] + 16777216 * (bytes[4] % 128)

\* C32: to_little_endian_buffer gives the 1, 2 or 4 bytes of an integer
\* variant, least significant first, and parse_buffer_as of the type of v on
\* these bytes gives v back; parse_buffer_as fails with InvalidNumberType
\* exactly when the buffer is not as long as the type is wide.
C32_RoundTrip ==
    /\ \A v \in IntegerValues :
           /\ Len(to_little_endian_buffer(v)) = WidthOfType(v.tag)
           /\ \A i \in 1..WidthOfType(v.tag) : to_little_endian_buffer(v)[i] \in 0..255
           /\ v.v >= 0 => UnsignedOf(to_little_endian_buffer(v)) = v.v
    /\ ParseBufferAsCalled /\ f_call.args[1] \in ValueTypes \ {"None", "F32", "STR"} =>
           /\ ~f_result[1].panic
           /\ (~f_result[1].ok /\ f_result[1].err = "InvalidNumberType")
                  <=> Len(f_call.args[2]) # WidthOfType(f_call.args[1])
           /\ \A v \in ParsedIntegers : f_result[1].ok /\ f_result[1].value = v

\* parse_buffer_as of U16 on the two bytes of U16(0x1234) failed with
\* InvalidNumberType
C32_Witness ==
    /\ ParseBufferAsCalled
    /\ f_call.args[1] = "U16"
    /\ f_call.args[2] = <<\h34, \h12>>
    /\ ~f_result[1].ok
    /\ f_result[1].err = "InvalidNumberType"

\* the request addresses a NoStorage entry of the dictionary
IsCommandRequest(ccs) ==
    /\ IsRequest(ccs)
    /\ RequestedEntries # {}
    /\ RequestedEntry.storage = "NoStorage"

\* C33: an InitiateDownload request to a NoStorage entry calls the handler
\* of the entry, stores no value and is answered with DownloadResponse; an
\* InitiateUpload of the entry is answered with an abort.
C33_Command ==
    /\ IsCommandRequest(1) =>
           /\ s_response = <<RawResponse(\h60, 0)>>
           /\ od = s_od_before
           /\ process_download(s_od_before, s_node,
                               CANOpenFrame_try_from(s_request[1]).frame.payload).handled
    /\ IsCommandRequest(2) =>
           /\ Len(s_response) = 1
           /\ s_response[1].data[1] = \h80
           /\ od = s_od_before

\* an InitiateDownload to the command of 0x2003,01 was answered with abort
\* ObjectDoesNotExist, and no handler was called
C33_Witness ==
    /\ IsCommandRequest(1)
    /\ RequestIndex(s_request[1]) = \h2003
    /\ s_response = <<RawResponse(\h80, \h06020000)>>
    /\ ~process_download(s_od_before, s_node,
                         CANOpenFrame_try_from(s_request[1]).frame.payload).handled

\* the entry set_object_value was called on holds a value of the variant of
\* the new one
IsSetOf(storage) ==
    /\ SetObjectValueCalled
    /\ \E o \in CalledEntries : o.storage = storage /\ o.value.tag = f_call.args[3].tag

\* the new value differs from the one the entry held
SetDiffers == \E o \in CalledEntries : o.value # f_call.args[3]

\* C34: set_object_value calls update_pdo on a Variable entry, and
\* update_pdo and then persist_value on a Persistent entry, exactly when the
\* new value differs from the stored one; a value equal to the stored one
\* calls no hook and succeeds; on a Const entry the call fails with
\* CannotWriteToConstStorage and calls no hook.
C34_Hooks ==
    /\ IsSetOf("Variable") =>
           /\ f_result[1].hooked <=> SetDiffers
           /\ ~f_result[1].persisted
    /\ IsSetOf("Persistent") =>
           /\ f_result[1].hooked <=> SetDiffers
           /\ f_result[1].persisted <=> SetDiffers
    /\ (IsSetOf("Variable") \/ IsSetOf("Persistent")) /\ ~SetDiffers =>
           f_result[1].ok /\ od = s_od_before
    /\ SetObjectValueCalled /\ (\E o \in CalledEntries : o.storage = "Const") =>
           /\ ~f_result[1].ok
           /\ f_result[1].err = "CannotWriteToConstStorage"
           /\ ~f_result[1].hooked
           /\ ~f_result[1].persisted
           /\ od = s_od_before

\* set_object_value of another string on the Persistent entry 0x2007,01
\* called update_pdo, which panicked, and persist_value was not called
C34_Witness ==
    /\ IsSetOf("Persistent")
    /\ SetDiffers
    /\ f_result[1].hooked
    /\ f_result[1].panic
    /\ ~f_result[1].persisted
    /\ s_phase = "panicked"


\* a segment request of read_object is outstanding
SegmentRequested == cl_pc = "await_segment" /\ cl_op.kind = "read"

\* the toggle bit of the command byte of the request last written
SentToggle == (cl_sent[1].data[1] \div 16) % 2 = 1

SegmentAccepted ==
    /\ cl_pc = "segment_loop"
    /\ cl_op.kind = "read"
    /\ cl_ended_by = "frame"
    /\ cl_sent # <<>>
    /\ cl_sent[1].data[1] \div 32 = 3
    /\ cl_last_rx # <<>>

\* the toggle bit of the command byte of the frame last read
ReceivedToggle == (cl_last_rx[1].data[1] \div 16) % 2 = 1

\* C36: during a segmented upload the client accepts a segment response only
\* if its toggle bit equals the toggle bit of the outstanding segment
\* request.  read_segment copies data only right before it accepts, so a
\* response that is not accepted leaves dst alone.
C36_ToggleChecked == SegmentAccepted => (ReceivedToggle <=> SentToggle)

\* the second segment request, toggle bit clear, is answered by a frame with
\* the toggle bit set, and read_segment accepts it
C36_Witness ==
    /\ SegmentAccepted
    /\ cl_sent[1].data[1] = \h61
    /\ ~SentToggle
    /\ ReceivedToggle

\* the decoded raw frame is an SDO frame of eight bytes
DecodedSdo ==
    /\ Decoded
    /\ DecodedRaw.id \div 128 \in {FrameTypeCode["SdoTx"], FrameTypeCode["SdoRx"]}
    /\ DecodedRaw.id <= \h77F
    /\ Len(DecodedRaw.data) = 8

\* C37: decoding a raw CAN frame never yields Payload::SdoWithoutIndex:
\* every command byte a without-index parser accepts is accepted by the
\* with-index parser of the same direction, which is tried first, so every
\* 8-byte SDO frame, segment frames included, decodes to SdoWithIndex or
\* Unspecific.
C37_NeverWithoutIndex ==
    /\ (Decoded /\ f_result[1].ok) => f_result[1].frame.payload.kind # "SdoWithoutIndex"
    /\ DecodedSdo =>
           LET data == DecodedRaw.data
           IN  /\ f_result[1].ok
               /\ f_result[1].frame.payload.kind \in {"SdoWithIndex", "Unspecific"}
               /\ WithoutIndexPayload_parse_as_server_payload(data).ok
                      => WithIndexPayload_parse_as_server_payload(data).ok
               /\ WithoutIndexPayload_parse_as_client_payload(data).ok
                      => WithIndexPayload_parse_as_client_payload(data).ok

\* the segment request 0x70 on SdoRx, which the without-index client parser
\* accepts, decoded to SdoWithIndex
C37_Witness ==
    /\ DecodedSdo
    /\ DecodedRaw.id = \h601
    /\ DecodedRaw.data[1] = \h70
    /\ WithoutIndexPayload_parse_as_client_payload(DecodedRaw.data).ok
    /\ f_result[1].ok
    /\ f_result[1].frame.payload.kind = "SdoWithIndex"

\* C38: during a segmented read the client never panics and never writes
\* outside dst, whatever frames it reads: dst keeps its length, the count of
\* bytes read stays within it, and a segment response that carries more
\* bytes than remain of dst or of the announced total is taken without a
\* write out of range.
C38_InBounds ==
    cl_op.kind = "read" =>
        /\ cl_pc # "panicked"
        /\ Len(cl_dst) \in DstLengths
        /\ cl_bytes_already_read <= Len(cl_dst)
        /\ cl_pc \in {"segment_loop", "await_segment"} => cl_len <= Len(cl_dst)

\* a segment response of seven data bytes was accepted in a read of 5
\* announced bytes into a dst of 5 bytes
C38_Witness ==
    /\ SegmentAccepted
    /\ cl_last_rx[1].data[1] = \h00
    /\ Len(cl_last_rx[1].data) = 8
    /\ Len(cl_dst) = 5
    /\ cl_len = 5
    /\ Len(cl_dst) - cl_bytes_already_read < 7
    /\ cl_pc # "panicked"

\* the operation returned on a frame it read from the socket: it took that
\* frame as the answer to its request
ResponseTaken ==
    /\ cl_pc = "done"
    /\ cl_ended_by = "frame"
    /\ cl_taken # <<>>

\* C39: a response frame a client operation accepts was sent in reply to
\* that operation's own request: a late response to an earlier, timed-out
\* request for the same node, index and subindex, still queued on the
\* socket, is never taken as the answer to a later read_object or
\* write_object.
C39_OwnResponse == ResponseTaken => cl_taken[1].call = cl_calls

\* the second read_object of 0x2001,01 returned on the response the server
\* wrote to the request of the first, which had timed out
C39_Witness ==
    /\ ResponseTaken
    /\ cl_calls = 2
    /\ cl_taken[1].call = 1
    /\ cl_op.kind = "read"
    /\ cl_op.index = \h2001
    /\ cl_result = <<Ok(2)>>
    /\ cl_requests # <<>>
    /\ Head(cl_requests).call = 2

\* the frame the server read last is an SdoRx request to its node that
\* decodes to an indexed payload
IndexedRequest ==
    /\ s_request # <<>>
    /\ s_request[1].id = \h600 + s_node
    /\ CANOpenFrame_try_from(s_request[1]).ok
    /\ CANOpenFrame_try_from(s_request[1]).frame.payload.kind = "SdoWithIndex"

\* C40: for every SdoRx request to the node that decodes to an indexed
\* payload the server writes exactly one response frame in the same turn of
\* its loop, on COB-ID 0x580 + node_id and with the index and subindex of the
\* request; it writes no frame in a turn that read no such request.
C40_OneResponse ==
    /\ IndexedRequest =>
           /\ Len(s_response) = 1
           /\ s_response[1].id = \h580 + s_node
           /\ Len(s_response[1].data) = 8
           /\ RequestIndex(s_response[1]) = RequestIndex(s_request[1])
           /\ RequestSubindex(s_response[1]) = RequestSubindex(s_request[1])
    /\ s_response # <<>> => IndexedRequest

\* the UploadSegment request 0x60 to 0x2003,01 of node 5 was answered with
\* one frame on 0x585: abort UnsupportedAccess for 0x2003,01
C40_Witness ==
    /\ IndexedRequest
    /\ s_node = 5
    /\ s_request[1].data[1] = \h60
    /\ RequestIndex(s_request[1]) = \h2003
    /\ Len(s_response) = 1
    /\ s_response[1].id = \h585
    /\ s_response[1].data[1] = \h80
    /\ RequestIndex(s_response[1]) = \h2003
    /\ RequestSubindex(s_response[1]) = 1
=============================================================================
